---- MODULE Spec2Model ----
(***************************************************************************)
(* mocktail: a generator of testify mocks.  The model covers the type      *)
(* expression resolver (Syrup.getTypeName), the import collector           *)
(* (getTypeImports / getMethodImports), the per-method render data         *)
(* (Syrup.MockMethod, Syrup.Call), the model builders (walk,               *)
(* processSingleFile) and the orchestrator (generate).                     *)
(*                                                                         *)
(* Text is modelled as the sequence of Go tokens the emitted string lexes  *)
(* to (white space dropped): "[]int" is <<"[", "]", "int">>.               *)
(***************************************************************************)
EXTENDS Integers, Sequences, FiniteSets, TLC

VARIABLES
    \* --- type resolver run (one type descriptor) ---
    ty,         \* the go/types descriptor handed to getTypeName / getTypeImports
    pkgPath,    \* Syrup.PkgPath, the owning package path
    sigVariadic,\* Syrup.Signature.Variadic()
    last,       \* the `last` argument of getTypeName
    typeName,   \* tokens returned by getTypeName, NotRun before the call
    typeImports,\* list returned by getTypeImports, NotRun before the call
    parsed      \* result of parsing typeName as a Go parameter type

typeVars == <<ty, pkgPath, sigVariadic, last, typeName, typeImports, parsed>>

VARIABLES
    \* --- method run (one Syrup value) ---
    iface,        \* the InterfaceDesc: Name, Methods, TypeParams
    mIdx,         \* index in iface.Methods of Syrup.Method
    mPkg,         \* Syrup.PkgPath
    mockData,     \* the data MockMethod built, NoData before the call
    callData,     \* the data Call built, NoData before the call
    methodImports \* the list getMethodImports returned, NotRun before the call

methodVars == <<iface, mIdx, mPkg, mockData, callData, methodImports>>

VARIABLES
    \* --- generator run (main) ---
    mode,       \* "walk" when the source flag is empty, "single" otherwise
    exported,   \* the e flag
    templates,  \* names of the fragments the template file defines
    mockFiles,  \* directory |-> the `// mocktail:` lines of its mock_test.go
    sourceFile, \* the source flag
    interfaceFilter, \* the allow-list of interface names, {} when none is given
    phase,      \* position of main
    toVisit,    \* directories filepath.WalkDir has not visited yet
    model,      \* map[string]PackageDesc
    genLeft,    \* keys of model the loop of generate has not reached yet
    written,    \* the files os.WriteFile has written
    err         \* the error main logs, "" when none

pipeVars ==
    <<mode, exported, templates, mockFiles, sourceFile, interfaceFilter, phase, toVisit, model,
      genLeft, written, err>>

VARIABLES
    \* --- import list run (one quickGoImports call) ---
    importSet,   \* the keys of descPkg.Imports
    importOrder, \* the order in which the range loop yielded them, NotRun before the call
    importList   \* the list quickGoImports returned, NotRun before the call

importVars == <<importSet, importOrder, importList>>

VARIABLES
    \* --- render run (one Syrup value with its template) ---
    templateFile, \* the template text handed to Parse
    tmpl,         \* names of the fragments of the parsed template, NotLoaded before
    writer,       \* the fragments written to the writer, in order
    renderErr     \* the error of Parse or of the last render call, "" when none

renderVars == <<templateFile, tmpl, writer, renderErr>>

VARIABLES
    \* --- descent run (the calls one getTypeName or getTypeImports call makes) ---
    walkFn,  \* "getTypeName" or "getTypeImports"
    root,    \* the type descriptor of the outermost call
    pending, \* the type descriptors the calls still to be made are made on
    outcome  \* "running", "returned", or "panic" for the unsupported-type panic

descentVars == <<walkFn, root, pending, outcome>>

vars == <<typeVars, methodVars, pipeVars, importVars, renderVars, descentVars>>

-----------------------------------------------------------------------------
(* Bounds of the model. *)

\* nesting depth of the type descriptors drawn for the resolver
MaxDepth == 2
\* length of the array types drawn
ArrayLen == 3
\* number of parameters of the methods drawn
MaxParams == 2
\* number of `// mocktail:` lines of a mock_test.go file
MaxAnnotations == 2

-----------------------------------------------------------------------------
(* go/types descriptors.  One record shape for every variant:              *)
(*   k  : variant                                                          *)
(*   a  : Name() of a Basic / Obj().Name() of a Named or TypeParam,        *)
(*        Dir() of a Chan, "variadic" for a variadic Signature             *)
(*   p  : Obj().Pkg().Path() of a Named, "" when Obj().Pkg() is nil        *)
(*   q  : Obj().Pkg().Name() of a Named                                    *)
(*   n  : Len() of an Array, Params().Len() of a Signature                 *)
(*   nm : field names of a Struct, method names of an Interface            *)
(*   ch : the component types (Elem; Key, Elem; Params then Results;       *)
(*        field types; method signatures)                                  *)

Ty(k, a, p, q, n, nm, ch) ==
    [k |-> k, a |-> a, p |-> p, q |-> q, n |-> n, nm |-> nm, ch |-> ch]

Basic(name) == Ty("Basic", name, "", "", 0, <<>>, <<>>)
Named(path, short, name) == Ty("Named", name, path, short, 0, <<>>, <<>>)
TypeParam(name) == Ty("TypeParam", name, "", "", 0, <<>>, <<>>)
Slice(e) == Ty("Slice", "", "", "", 0, <<>>, <<e>>)
Array(len, e) == Ty("Array", "", "", "", len, <<>>, <<e>>)
Pointer(e) == Ty("Pointer", "", "", "", 0, <<>>, <<e>>)
Map(key, e) == Ty("Map", "", "", "", 0, <<>>, <<key, e>>)
Chan(dir, e) == Ty("Chan", dir, "", "", 0, <<>>, <<e>>)
\* a function type; nm holds the names of the parameters, then of the results
Signature(ps, rs, variadic) ==
    Ty("Signature", IF variadic THEN "variadic" ELSE "", "", "", Len(ps),
       [i \in 1..(Len(ps) + Len(rs)) |-> ""], ps \o rs)
Struct(names, fields) == Ty("Struct", "", "", "", 0, names, fields)
Interface(names, sigs) == Ty("Interface", "", "", "", 0, names, sigs)
\* a variant none of the type switches lists (*types.Alias, *types.Union, ...)
Alias(name) == Ty("Alias", name, "", "", 0, <<>>, <<>>)

Params(sig) == SubSeq(sig.ch, 1, sig.n)
Results(sig) == SubSeq(sig.ch, sig.n + 1, Len(sig.ch))

\* *types.Var: Name() and Type()
Var(name, type) == [name |-> name, type |-> type]
\* the signature of a method, from its parameter and result variables
MethodSig(pvars, rvars, variadic) ==
    Ty("Signature", IF variadic THEN "variadic" ELSE "", "", "", Len(pvars),
       [i \in 1..Len(pvars) |-> pvars[i].name] \o [i \in 1..Len(rvars) |-> rvars[i].name],
       [i \in 1..Len(pvars) |-> pvars[i].type] \o [i \in 1..Len(rvars) |-> rvars[i].type])
\* Signature.Params() and Signature.Results() as tuples of variables
ParamVars(sig) == [i \in 1..sig.n |-> Var(sig.nm[i], sig.ch[i])]
ResultVars(sig) ==
    [i \in 1..(Len(sig.ch) - sig.n) |-> Var(sig.nm[sig.n + i], sig.ch[sig.n + i])]
\* *types.Func: Name() and Type()
Func(name, sig) == [name |-> name, sig |-> sig]
Variadic(sig) == sig.a = "variadic"

ChanDirs == {"SendRecv", "SendOnly", "RecvOnly"}

-----------------------------------------------------------------------------
(* Text helpers. *)

\* the value an operator has when the Go code panics ("OOPS ...")
Panic == <<"!panic">>

\* string concatenation; a panic in either operand unwinds the whole call
Cat(x, y) == IF x = Panic \/ y = Panic THEN Panic ELSE x \o y

RECURSIVE Join(_, _)
\* strings.Join(parts, sep)
Join(parts, sep) ==
    IF parts = <<>> THEN <<>>
    ELSE IF Len(parts) = 1 THEN parts[1]
    ELSE Cat(Cat(parts[1], sep), Join(Tail(parts), sep))

RECURSIVE Flatten(_)
\* append(imports, more...) over a list of lists
Flatten(lists) ==
    IF lists = <<>> THEN <<>> ELSE Cat(lists[1], Flatten(Tail(lists)))

Range(f) == {f[i] : i \in DOMAIN f}

-----------------------------------------------------------------------------
(* go/types: Type.String() with the default (full package path) qualifier. *)

RECURSIVE TypeString(_)
TypeString(t) ==
    LET tuple(ts) == Join([i \in 1..Len(ts) |-> TypeString(ts[i])], <<",">>)
        sigText(sig) ==
            LET ps == Params(sig)
                rs == Results(sig)
                pt == [i \in 1..Len(ps) |->
                        IF Variadic(sig) /\ i = Len(ps) /\ ps[i].k = "Slice"
                        THEN <<"...">> \o TypeString(ps[i].ch[1])
                        ELSE TypeString(ps[i])]
            IN  <<"(">> \o Join(pt, <<",">>) \o <<")">> \o
                (IF Len(rs) = 0 THEN <<>>
                 ELSE IF Len(rs) = 1 THEN TypeString(rs[1])
                 ELSE <<"(">> \o tuple(rs) \o <<")">>)
    IN  CASE t.k \in {"Basic", "TypeParam", "Alias"} -> <<t.a>>
          [] t.k = "Named" -> IF t.p = "" THEN <<t.a>> ELSE <<t.p, ".", t.a>>
          [] t.k = "Slice" -> <<"[", "]">> \o TypeString(t.ch[1])
          [] t.k = "Array" -> <<"[", ToString(t.n), "]">> \o TypeString(t.ch[1])
          [] t.k = "Pointer" -> <<"*">> \o TypeString(t.ch[1])
          [] t.k = "Map" ->
                <<"map", "[">> \o TypeString(t.ch[1]) \o <<"]">> \o TypeString(t.ch[2])
          [] t.k = "Chan" ->
                IF t.a = "SendOnly" THEN <<"chan", "<-">> \o TypeString(t.ch[1])
                ELSE IF t.a = "RecvOnly" THEN <<"<-", "chan">> \o TypeString(t.ch[1])
                ELSE IF t.ch[1].k = "Chan" /\ t.ch[1].a = "RecvOnly"
                     THEN <<"chan", "(">> \o TypeString(t.ch[1]) \o <<")">>
                     ELSE <<"chan">> \o TypeString(t.ch[1])
          [] t.k = "Signature" -> <<"func">> \o sigText(t)
          [] t.k = "Struct" ->
                <<"struct", "{">> \o
                Join([i \in 1..Len(t.ch) |-> <<t.nm[i]>> \o TypeString(t.ch[i])], <<";">>)
                \o <<"}">>
          [] t.k = "Interface" ->
                <<"interface", "{">> \o
                Join([i \in 1..Len(t.ch) |-> <<t.nm[i]>> \o sigText(t.ch[i])], <<";">>)
                \o <<"}">>

\* const contextType = "context.Context"
contextType == <<"context", ".", "Context">>

\* mutant: no parameter is recognised as a context
IsContext_Never(t) == FALSE

\* param.Type().String() == contextType
IsContext(t) == TypeString(t) = contextType

-----------------------------------------------------------------------------
(* Syrup: the type expression resolver.  s is the Syrup value: PkgPath,    *)
(* InterfaceName, Method, Signature, TypeParams.                           *)

\* mutant: the package qualifier is never written
getNamedTypeName_Bare(s, t) == <<t.a>>

getNamedTypeName(s, t) ==
    IF t.p # ""
    THEN IF t.p = s.PkgPath THEN <<t.a>> ELSE <<t.q, ".", t.a>>
    \* Obj().Pkg() == nil: t.String() is the bare name, it holds no "/"
    ELSE <<t.a>>

RECURSIVE getTypeName(_, _, _)
getTupleTypes(s, ts) == [i \in 1..Len(ts) |-> getTypeName(s, ts[i], FALSE)]

getChanTypeName(s, t) ==
    LET typ == CASE t.a = "SendRecv" -> <<"chan">>
                 [] t.a = "SendOnly" -> <<"chan", "<-">>
                 [] t.a = "RecvOnly" -> <<"<-", "chan">>
    IN  Cat(typ, getTypeName(s, t.ch[1], FALSE))

getTypeName(s, t, isLast) ==
    CASE t.k = "Basic" -> <<t.a>>
      [] t.k = "Slice" ->
            IF Variadic(s.Signature) /\ isLast
            THEN Cat(<<"...">>, getTypeName(s, t.ch[1], FALSE))
            ELSE Cat(<<"[", "]">>, getTypeName(s, t.ch[1], FALSE))
      [] t.k = "Map" ->
            Cat(Cat(Cat(<<"map", "[">>, getTypeName(s, t.ch[1], FALSE)), <<"]">>),
                getTypeName(s, t.ch[2], FALSE))
      [] t.k = "Named" -> getNamedTypeName(s, t)
      [] t.k = "Pointer" -> Cat(<<"*">>, getTypeName(s, t.ch[1], FALSE))
      [] t.k = "Struct" -> TypeString(t)
      [] t.k = "Interface" -> TypeString(t)
      [] t.k = "Signature" ->
            LET fn == Cat(Cat(<<"func", "(">>,
                              Join(getTupleTypes(s, Params(t)), <<",">>)), <<")">>)
            IN  IF Len(Results(t)) > 0
                THEN Cat(Cat(Cat(fn, <<"(">>),
                             Join(getTupleTypes(s, Results(t)), <<",">>)), <<")">>)
                ELSE fn
      [] t.k = "Chan" -> getChanTypeName(s, t)
      [] t.k = "Array" -> Cat(<<"[", ToString(t.n), "]">>, getTypeName(s, t.ch[1], FALSE))
      [] t.k = "TypeParam" -> <<t.a>>
      [] OTHER -> Panic

-----------------------------------------------------------------------------
(* The import collector. *)

RECURSIVE getTypeImports(_)
getTupleImports(tuples) ==
    Flatten([j \in 1..Len(tuples) |->
                Flatten([i \in 1..Len(tuples[j]) |-> getTypeImports(tuples[j][i])])])

getTypeImports(t) ==
    CASE t.k = "Basic" -> <<"">>
      [] t.k = "Slice" -> getTypeImports(t.ch[1])
      [] t.k = "Array" -> getTypeImports(t.ch[1])
      [] t.k = "Struct" -> Flatten([i \in 1..Len(t.ch) |-> getTypeImports(t.ch[i])])
      [] t.k = "Map" -> Cat(getTypeImports(t.ch[1]), getTypeImports(t.ch[2]))
      [] t.k = "Named" -> IF t.p = "" THEN <<"">> ELSE <<t.p>>
      [] t.k = "Pointer" -> getTypeImports(t.ch[1])
      [] t.k = "Interface" -> <<"">>
      [] t.k = "Signature" -> getTupleImports(<<Params(t), Results(t)>>)
      [] t.k = "Chan" -> <<"">>
      [] t.k = "TypeParam" -> <<"">>
      [] OTHER -> Panic

-----------------------------------------------------------------------------
(* Syrup: the data handed to the templates. *)

Letters == <<"a", "b", "c", "d", "e", "f", "g", "h">>
\* string(rune('a' + i))
Letter(i) == Letters[i + 1]

getParamName(tVar, i) == IF tVar.name = "" THEN Letter(i) \o "Param" ELSE tVar.name

\* a result name built the way parameter names are
getResultName_LikeParam(tVar, i) ==
    IF tVar.name = "" THEN Letter(i) \o "Param" ELSE tVar.name

getResultName(tVar, i) ==
    IF tVar.name = "" THEN "_r" \o Letter(i) \o ToString(i) ELSE tVar.name

\* the indexes of all parameters, context.Context included
NonContext_All(params) == [i \in 1..Len(params) |-> i]

\* the indexes (from 1) of the parameters that are not context.Context
NonContext(params) ==
    LET keep(i) == ~IsContext(params[i].type)
    IN  SelectSeq([i \in 1..Len(params) |-> i], keep)

Parameter(name, type, isContext, position) ==
    [Name |-> name, Type |-> type, IsContext |-> isContext, Position |-> position]

\* a nil *types.Tuple
NilTuple == <<Var("!nil", Basic(""))>>

RECURSIVE ParamsText(_, _, _)
\* the loop over params of createFuncSignature, from index i (from 1)
ParamsText(s, params, i) ==
    IF i > Len(params) THEN <<>>
    ELSE IF IsContext(params[i].type) THEN ParamsText(s, params, i + 1)
    ELSE Cat(Cat(getTypeName(s, params[i].type, i = Len(params)),
                 IF i < Len(params) THEN <<",">> ELSE <<>>),
             ParamsText(s, params, i + 1))

createFuncSignature(s, params, results) ==
    LET fnSign == Cat(Cat(<<"func", "(">>, ParamsText(s, params, 1)), <<")">>)
    IN  IF results # NilTuple
        THEN Cat(Cat(Cat(fnSign, <<"(">>),
                     Join([i \in 1..Len(results) |-> getTypeName(s, results[i].type, FALSE)],
                          <<",">>)),
                 <<")">>)
        ELSE fnSign

\* "[" + strings.Join(names, ", ") + "]", "" without type parameters
getTypeParamsUse(s) ==
    IF Len(s.TypeParams) = 0 THEN <<>>
    ELSE <<"[">> \o Join([i \in 1..Len(s.TypeParams) |-> <<s.TypeParams[i].name>>], <<",">>)
         \o <<"]">>

\* "[" + strings.Join(name + " " + constraint, ", ") + "]"
TypeParamsDecl(typeParams) ==
    IF Len(typeParams) = 0 THEN <<>>
    ELSE <<"[">> \o Join([i \in 1..Len(typeParams) |->
                            <<typeParams[i].name>> \o typeParams[i].constraint], <<",">>)
         \o <<"]">>

\* the CombinedMockMethodData MockMethod hands to "combinedMockMethod"
MockMethod(s) ==
    LET params == ParamVars(s.Signature)
        results == ResultVars(s.Signature)
        keep == NonContext(params)
        name(i) == IF IsContext(params[i].type) THEN "_" ELSE getParamName(params[i], i - 1)
    IN  [InterfaceName |-> s.InterfaceName,
         MethodName |-> s.Method.name,
         TypeParamsUse |-> getTypeParamsUse(s),
         Params |-> [i \in 1..Len(params) |->
                        Parameter(name(i),
                                  getTypeName(s, params[i].type, i = Len(params)),
                                  IsContext(params[i].type), 0)],
         Results |-> [i \in 1..Len(results) |->
                        [Name |-> getResultName(results[i], i - 1),
                         Type |-> getTypeName(s, results[i].type, FALSE)]],
         CallArgs |-> [k \in 1..Len(keep) |-> name(keep[k])],
         OnCallArgs |-> [k \in 1..Len(keep) |->
                            IF params[keep[k]].type.k = "Signature" THEN "mock.Anything"
                            ELSE name(keep[k])],
         FnSignature |-> createFuncSignature(s, params, results),
         IsVariadic |-> Variadic(s.Signature)]

\* an entry that takes the variadic flag of the method being wrapped
SiblingMethod_OwnVariadic(s, method) ==
    [Name |-> method.name,
     Params |-> [i \in 1..method.sig.n |->
                    Parameter(getParamName(Var(method.sig.nm[i], method.sig.ch[i]), i - 1),
                              getTypeName(s, method.sig.ch[i], i = method.sig.n),
                              IsContext(method.sig.ch[i]), 0)],
     IsVariadic |-> Variadic(s.Signature)]

\* the entry of Methods that Call builds for one method of the interface
SiblingMethod(s, method) ==
    LET mParams == ParamVars(method.sig)
    IN  [Name |-> method.name,
         Params |-> [i \in 1..Len(mParams) |->
                        Parameter(getParamName(mParams[i], i - 1),
                                  getTypeName(s, mParams[i].type, i = Len(mParams)),
                                  IsContext(mParams[i].type), 0)],
         IsVariadic |-> Variadic(method.sig)]

\* strcase.ToGoCamel on an interface name: the first letter in lower case
ToGoCamel(name) ==
    CASE name = "PiniaColada" -> "piniaColada"
      [] name = "Cache" -> "cache"
      [] name = "Coconut" -> "coconut"
      [] name = "Store" -> "store"
      [] name = "Empty" -> "empty"
      [] name = "Foo" -> "foo"
      [] name = "FooBar" -> "fooBar"
      [] OTHER -> name

\* the CombinedCallData Call hands to "combinedCall"
Call(s, methods) ==
    LET params == ParamVars(s.Signature)
        results == ResultVars(s.Signature)
        keep == NonContext(params)
        typeParamsUse == getTypeParamsUse(s)
    IN  [InterfaceName |-> s.InterfaceName,
         MethodName |-> s.Method.name,
         TypeParamsUse |-> typeParamsUse,
         TypeParamsDecl |-> TypeParamsDecl(s.TypeParams),
         ReturnParams |-> [i \in 1..Len(results) |->
                            Parameter(Letter(i - 1),
                                      getTypeName(s, results[i].type, FALSE), FALSE, 0)],
         ReturnsFnSignature |-> createFuncSignature(s, params, results),
         TypedRunFnSignature |-> createFuncSignature(s, params, NilTuple),
         InputParams |-> [k \in 1..Len(keep) |->
                            Parameter("_" \o getParamName(params[keep[k]], keep[k] - 1),
                                      getTypeName(s, params[keep[k]].type, FALSE),
                                      FALSE, k - 1)],
         IsVariadic |-> Variadic(s.Signature),
         CallType |-> <<ToGoCamel(s.InterfaceName) \o s.Method.name \o "Call">>
                      \o typeParamsUse,
         Methods |-> [j \in 1..Len(methods) |-> SiblingMethod(s, methods[j])],
         HasReturns |-> Len(results) > 0]

\* mutant: nothing is filtered out
getMethodImports_Unfiltered(method, importPath) ==
    getTupleImports(<<Params(method.sig), Results(method.sig)>>)

\* mutant: the package of a context parameter is filtered out as well
getMethodImports_NoContext(method, importPath) ==
    LET all == getTupleImports(<<Params(method.sig), Results(method.sig)>>)
        keep(imp) == imp # "" /\ imp # importPath /\ imp # "context"
    IN  IF all = Panic THEN Panic ELSE SelectSeq(all, keep)

\* getMethodImports(method, importPath)
getMethodImports(method, importPath) ==
    LET all == getTupleImports(<<Params(method.sig), Results(method.sig)>>)
        keep(imp) == imp # "" /\ imp # importPath
    IN  IF all = Panic THEN Panic ELSE SelectSeq(all, keep)

-----------------------------------------------------------------------------
(* The Go parser's reading of an emitted type expression (format.Source    *)
(* parses the generated file).  The syntax tree reuses the record shape of *)
(* Ty: Ident(a), SelectorExpr(q.a), StarExpr, ArrayType (a = "" for a      *)
(* slice, the length otherwise), MapType, ChanType(a = direction),         *)
(* FuncType(n = number of parameters), Ellipsis.                           *)

Punct == {"[", "]", "(", ")", ",", ".", "*", "...", "<-", "{", "}", ";"}
Keywords == {"map", "chan", "func", "struct", "interface"}
Digits == {"0", "1", "2", "3", "4", "5", "6", "7", "8", "9"}
IsNumber(tok) == tok \in Digits
\* package paths of several elements: the scanner splits them at "/" and ".",
\* none of them is one identifier
LongPaths == {"m/a", "m/b", "gopkg.in/yaml.v3", "github.com/stretchr/testify/mock"}
IsIdent(tok) ==
    tok \notin Punct \cup Keywords \cup Digits \cup LongPaths \cup {"!panic", "!notrun"}
StartsType(tok) ==
    tok \in {"*", "[", "map", "chan", "<-", "func", "(", "struct", "interface"}
    \/ IsIdent(tok)

Node(k, a, q, n, ch) == Ty(k, a, "", q, n, <<>>, ch)
ParseFail == [ok |-> FALSE, ty |-> Basic(""), tys |-> <<>>, rest |-> <<>>]
ParseOk(t, r) == [ok |-> TRUE, ty |-> t, tys |-> <<>>, rest |-> r]
ParseOkList(ts, r) == [ok |-> TRUE, ty |-> Basic(""), tys |-> ts, rest |-> r]

RECURSIVE ParseType(_), ParseParam(_), ParseParams(_), ParseFields(_), ParseMethods(_)

\* one wrapper: parse the element and wrap it
ParseElem(k, a, toks) ==
    LET e == ParseType(toks)
    IN  IF e.ok THEN ParseOk(Node(k, a, "", 0, <<e.ty>>), e.rest) ELSE ParseFail

ParseFunc(toks) ==
    LET ps == ParseParams(toks)
    IN  IF ~ps.ok THEN ParseFail
        ELSE IF ps.rest # <<>> /\ Head(ps.rest) = "("
        THEN LET rs == ParseParams(Tail(ps.rest))
             IN  IF rs.ok
                 THEN ParseOk(Node("FuncType", "", "", Len(ps.tys), ps.tys \o rs.tys),
                              rs.rest)
                 ELSE ParseFail
        ELSE IF ps.rest # <<>> /\ StartsType(Head(ps.rest))
        THEN LET r == ParseType(ps.rest)
             IN  IF r.ok
                 THEN ParseOk(Node("FuncType", "", "", Len(ps.tys), ps.tys \o <<r.ty>>),
                              r.rest)
                 ELSE ParseFail
        ELSE ParseOk(Node("FuncType", "", "", Len(ps.tys), ps.tys), ps.rest)

ParseType(toks) ==
    IF toks = <<>> THEN ParseFail
    ELSE LET h == Head(toks)
             r == Tail(toks)
         IN  CASE h = "*" -> ParseElem("StarExpr", "", r)
               [] h = "[" ->
                    IF r # <<>> /\ r[1] = "]" THEN ParseElem("ArrayType", "", Tail(r))
                    ELSE IF Len(r) >= 2 /\ IsNumber(r[1]) /\ r[2] = "]"
                    THEN ParseElem("ArrayType", r[1], Tail(Tail(r)))
                    ELSE ParseFail
               [] h = "map" ->
                    IF r = <<>> \/ r[1] # "[" THEN ParseFail
                    ELSE LET key == ParseType(Tail(r))
                         IN  IF ~key.ok \/ key.rest = <<>> \/ Head(key.rest) # "]"
                             THEN ParseFail
                             ELSE LET e == ParseType(Tail(key.rest))
                                  IN  IF e.ok
                                      THEN ParseOk(Node("MapType", "", "", 0,
                                                        <<key.ty, e.ty>>), e.rest)
                                      ELSE ParseFail
               \* `chan` directly followed by `<-` is always the send-only form
               [] h = "chan" ->
                    IF r # <<>> /\ r[1] = "<-" THEN ParseElem("ChanType", "SendOnly", Tail(r))
                    ELSE ParseElem("ChanType", "SendRecv", r)
               [] h = "<-" ->
                    IF r # <<>> /\ r[1] = "chan" THEN ParseElem("ChanType", "RecvOnly", Tail(r))
                    ELSE ParseFail
               [] h = "func" ->
                    IF r # <<>> /\ r[1] = "(" THEN ParseFunc(Tail(r)) ELSE ParseFail
               [] h = "struct" ->
                    IF r = <<>> \/ r[1] # "{" THEN ParseFail
                    ELSE LET fs == ParseFields(Tail(r))
                         IN  IF fs.ok
                             THEN ParseOk(Node("StructType", "", "", 0, fs.tys), fs.rest)
                             ELSE ParseFail
               [] h = "interface" ->
                    IF r = <<>> \/ r[1] # "{" THEN ParseFail
                    ELSE LET ms == ParseMethods(Tail(r))
                         IN  IF ms.ok
                             THEN ParseOk(Node("InterfaceType", "", "", 0, ms.tys), ms.rest)
                             ELSE ParseFail
               [] h = "(" ->
                    LET e == ParseType(r)
                    IN  IF e.ok /\ e.rest # <<>> /\ Head(e.rest) = ")"
                        THEN ParseOk(e.ty, Tail(e.rest))
                        ELSE ParseFail
               [] IsIdent(h) ->
                    IF Len(r) >= 2 /\ r[1] = "." /\ IsIdent(r[2])
                    THEN ParseOk(Node("SelectorExpr", r[2], h, 0, <<>>), Tail(Tail(r)))
                    ELSE ParseOk(Node("Ident", h, "", 0, <<>>), r)
               [] OTHER -> ParseFail

\* the fields of a struct type after its opening brace: name Type; ...
ParseFields(toks) ==
    IF toks = <<>> THEN ParseFail
    ELSE IF Head(toks) = "}" THEN ParseOkList(<<>>, Tail(toks))
    ELSE IF ~IsIdent(Head(toks)) THEN ParseFail
    ELSE LET f == ParseType(Tail(toks))
         IN  IF ~f.ok \/ f.rest = <<>> THEN ParseFail
             ELSE IF Head(f.rest) = "}" THEN ParseOkList(<<f.ty>>, Tail(f.rest))
             ELSE IF Head(f.rest) = ";"
             THEN LET more == ParseFields(Tail(f.rest))
                  IN  IF more.ok THEN ParseOkList(<<f.ty>> \o more.tys, more.rest)
                      ELSE ParseFail
             ELSE ParseFail

\* the methods of an interface type after its opening brace: Name(params) results; ...
ParseMethods(toks) ==
    IF toks = <<>> THEN ParseFail
    ELSE IF Head(toks) = "}" THEN ParseOkList(<<>>, Tail(toks))
    ELSE IF ~IsIdent(Head(toks)) \/ Len(toks) < 2 \/ toks[2] # "(" THEN ParseFail
    ELSE LET m == ParseFunc(Tail(Tail(toks)))
         IN  IF ~m.ok \/ m.rest = <<>> THEN ParseFail
             ELSE IF Head(m.rest) = "}" THEN ParseOkList(<<m.ty>>, Tail(m.rest))
             ELSE IF Head(m.rest) = ";"
             THEN LET more == ParseMethods(Tail(m.rest))
                  IN  IF more.ok THEN ParseOkList(<<m.ty>> \o more.tys, more.rest)
                      ELSE ParseFail
             ELSE ParseFail

\* a parameter declaration without a name: Type or ...Type
ParseParam(toks) ==
    IF toks # <<>> /\ Head(toks) = "..."
    THEN ParseElem("Ellipsis", "", Tail(toks))
    ELSE ParseType(toks)

\* the parameter list after its opening parenthesis, up to the closing one
ParseParams(toks) ==
    IF toks = <<>> THEN ParseFail
    ELSE IF Head(toks) = ")" THEN ParseOkList(<<>>, Tail(toks))
    ELSE LET p == ParseParam(toks)
         IN  IF ~p.ok \/ p.rest = <<>> THEN ParseFail
             ELSE IF Head(p.rest) = ")" THEN ParseOkList(<<p.ty>>, Tail(p.rest))
             ELSE IF Head(p.rest) = ","
             THEN LET more == ParseParams(Tail(p.rest))
                  IN  IF more.ok THEN ParseOkList(<<p.ty>> \o more.tys, more.rest)
                      ELSE ParseFail
             ELSE ParseFail

-----------------------------------------------------------------------------
(* The type descriptors the resolver is run on. *)

TInt == Basic("int")
TString == Basic("string")
TError == Named("", "", "error")
TContext == Named("context", "context", "Context")
TWater == Named("m/a", "a", "Water")
TStore == Named("m/b", "b", "Store")
TReader == Named("io", "io", "Reader")
\* a package whose name is not the last element of its path
TNode == Named("gopkg.in/yaml.v3", "yaml", "Node")
TParamT == TypeParam("T")

OwnPaths == {"m/a", "m/b"}

Leaves == {TInt, TString, TError, TContext, TWater, TStore, TReader, TNode, TParamT,
           Alias("Alias")}

\* every type built in one step from the types of S
Wrap(S) ==
    {Slice(e) : e \in S} \cup {Array(ArrayLen, e) : e \in S} \cup {Pointer(e) : e \in S}
    \cup {Chan(d, e) : d \in ChanDirs, e \in S}
    \cup {Map(key, e) : key \in {TString, TWater}, e \in S}
    \cup {Signature(ps, rs, FALSE) :
            ps \in {<<>>} \cup {<<e>> : e \in S} \cup {<<TInt, e>> : e \in S},
            rs \in {<<>>, <<TString>>, <<TString, TError>>}}
    \cup {Signature(<<e>>, <<>>, FALSE) : e \in {TInt}}
    \cup {Signature(<<TString, Slice(e)>>, <<>>, TRUE) : e \in S}
    \cup {Signature(<<TInt>>, <<e>>, FALSE) : e \in S}
    \cup {Struct(<<"F">>, <<e>>) : e \in S}
    \cup {Interface(<<"M">>, <<Signature(<<e>>, <<>>, FALSE)>>) : e \in S}

RECURSIVE TypesUpTo(_)
TypesUpTo(d) == IF d = 0 THEN Leaves ELSE LET S == TypesUpTo(d - 1) IN S \cup Wrap(S)

Types == TypesUpTo(MaxDepth)

RECURSIVE SubTypes(_)
\* t and every type nested in it
SubTypes(t) == {t} \cup UNION {SubTypes(t.ch[i]) : i \in 1..Len(t.ch)}

\* the variants the round trip and the qualification rule are stated for
PlainKinds == {"Basic", "Slice", "Array", "Map", "Pointer", "Signature", "Chan", "Named",
               "TypeParam"}
IsPlain(t) == \A u \in SubTypes(t) : u.k \in PlainKinds

-----------------------------------------------------------------------------
(* Descent run: the recursion of getTypeName and of getTypeImports, one    *)
(* call a step.  A named type has an underlying type, which can mention    *)
(* the named type again.                                                   *)

\* type List struct{ next *List }; type Tree []Tree; type Graph map[string]Graph;
\* type Fn func(int) Fn
TList == Named("m/a", "a", "List")
TTree == Named("m/a", "a", "Tree")
TGraph == Named("m/a", "a", "Graph")
TFn == Named("m/a", "a", "Fn")

RecursiveNamed == {TList, TTree, TGraph, TFn}

\* t.Underlying() of a named type
Underlying(t) ==
    CASE t = TList -> Struct(<<"next">>, <<Pointer(TList)>>)
      [] t = TTree -> Slice(TTree)
      [] t = TGraph -> Map(TString, TGraph)
      [] t = TFn -> Signature(<<TInt>>, <<TFn>>, FALSE)
      [] t = TError -> Interface(<<"Error">>, <<Signature(<<>>, <<TString>>, FALSE)>>)
      [] OTHER -> Struct(<<>>, <<>>)

\* the type descriptors of the descent runs
DescentTypes == LET S == Leaves \cup RecursiveNamed IN S \cup Wrap(S)

\* a descent that follows a named type into its underlying type
Callees_ThroughNamed(fn, t) ==
    CASE t.k = "Named" -> <<Underlying(t)>>
      [] t.k \in {"Basic", "Interface", "TypeParam"} -> <<>>
      [] t.k = "Struct" -> IF fn = "getTypeImports" THEN t.ch ELSE <<>>
      [] t.k = "Chan" -> IF fn = "getTypeName" THEN t.ch ELSE <<>>
      [] OTHER -> t.ch

\* the type descriptors the call of fn on t calls fn on, in order: the cases
\* of the two type switches
Callees(fn, t) ==
    CASE t.k \in {"Basic", "Named", "Interface", "TypeParam"} -> <<>>
      [] t.k = "Struct" -> IF fn = "getTypeImports" THEN t.ch ELSE <<>>
      [] t.k = "Chan" -> IF fn = "getTypeName" THEN t.ch ELSE <<>>
      [] OTHER -> t.ch

DescentIdle ==
    /\ walkFn = "getTypeName"
    /\ root = TInt
    /\ pending = <<>>
    /\ outcome = "returned"

DescentInit ==
    /\ walkFn \in {"getTypeName", "getTypeImports"}
    /\ root \in DescentTypes
    /\ pending = <<root>>
    /\ outcome = "running"

\* the next call of the recursion: the default case panics, every other case
\* calls on the parts of the type and returns when no call is left
VisitType ==
    /\ outcome = "running"
    /\ pending # <<>>
    /\ IF Head(pending).k \notin {"Basic", "Slice", "Array", "Map", "Named", "Pointer", "Struct",
                                  "Interface", "Signature", "Chan", "TypeParam"}
       THEN /\ outcome' = "panic"
            /\ pending' = <<>>
       ELSE /\ pending' = Callees(walkFn, Head(pending)) \o Tail(pending)
            /\ outcome' = IF pending' = <<>> THEN "returned" ELSE "running"
    /\ UNCHANGED <<walkFn, root>>
    /\ UNCHANGED <<typeVars, methodVars, pipeVars, importVars, renderVars>>

-----------------------------------------------------------------------------
(* Resolver run: one type descriptor through getTypeName, getTypeImports   *)
(* and the parser.                                                         *)

NotRun == <<"!notrun">>
NotParsed == [ok |-> FALSE, ty |-> Basic(""), tys |-> <<>>, rest |-> NotRun]

\* the Syrup value of the run: only PkgPath and Signature.Variadic() are read
TypeSyrup ==
    [PkgPath |-> pkgPath,
     Signature |-> Signature(<<Slice(TInt)>>, <<>>, sigVariadic)]

TypeIdle ==
    /\ ty = TInt
    /\ pkgPath = "m/a"
    /\ sigVariadic = FALSE
    /\ last = FALSE
    /\ typeName = NotRun
    /\ typeImports = NotRun
    /\ parsed = NotParsed

TypeInit ==
    /\ ty \in Types
    /\ pkgPath \in OwnPaths
    /\ sigVariadic \in BOOLEAN
    /\ last \in BOOLEAN
    /\ typeName = NotRun
    /\ typeImports = NotRun
    /\ parsed = NotParsed

ResolveType ==
    /\ typeName = NotRun
    /\ typeName' = getTypeName(TypeSyrup, ty, last)
    /\ UNCHANGED <<ty, pkgPath, sigVariadic, last, typeImports, parsed>>
    /\ UNCHANGED <<methodVars, pipeVars, importVars, renderVars, descentVars>>

CollectTypeImports ==
    /\ typeImports = NotRun
    /\ typeImports' = getTypeImports(ty)
    /\ UNCHANGED <<ty, pkgPath, sigVariadic, last, typeName, parsed>>
    /\ UNCHANGED <<methodVars, pipeVars, importVars, renderVars, descentVars>>

ParseTypeName ==
    /\ typeName \notin {NotRun, Panic}
    /\ parsed = NotParsed
    /\ parsed' = ParseParam(typeName)
    /\ UNCHANGED <<ty, pkgPath, sigVariadic, last, typeName, typeImports>>
    /\ UNCHANGED <<methodVars, pipeVars, importVars, renderVars, descentVars>>

TypeNext == ResolveType \/ CollectTypeImports \/ ParseTypeName

-----------------------------------------------------------------------------
(* Method run: one method of an interface through MockMethod, Call and     *)
(* getMethodImports.                                                       *)

\* the parameter types of the methods drawn
ParamTypes ==
    {TContext, TString, Slice(TInt), Chan("RecvOnly", TReader),
     Signature(<<TInt>>, <<>>, FALSE), TWater, Pointer(TNode), Map(TString, TStore)}

ResultTuples == {<<>>, <<Var("", TError)>>, <<Var("", Pointer(TNode)), Var("", TError)>>}

ParamNames == <<"x", "y", "z", "w">>

\* parameter lists: all parameters named, or none
ParamTuples ==
    UNION {{[i \in 1..n |-> Var(IF named THEN ParamNames[i] ELSE "", ts[i])] :
                ts \in [1..n -> ParamTypes], named \in BOOLEAN} : n \in 0..MaxParams}

\* a signature is variadic only when its last parameter is a slice
Signatures ==
    {MethodSig(ps, rs, v) : ps \in ParamTuples, rs \in ResultTuples, v \in BOOLEAN}

WellFormed(sig) == Variadic(sig) => (sig.n > 0 /\ sig.ch[sig.n].k = "Slice")

Methods == {Func("Rhum", sig) : sig \in {x \in Signatures : WellFormed(x)}}

\* the other methods of the interface
Siblings ==
    {Func("Pine", MethodSig(<<Var("name", TString), Var("more", Slice(TInt))>>, <<>>, TRUE)),
     Func("Pine", MethodSig(<<Var("all", Slice(TInt))>>, <<Var("", TError)>>, FALSE)),
     Func("Pine", MethodSig(<<Var("ctx", TContext), Var("w", TWater)>>, <<>>, FALSE))}

TypeParamLists == {<<>>, <<[name |-> "T", constraint |-> <<"comparable">>]>>}

InterfaceDesc(name, methods, typeParams) ==
    [Name |-> name, Methods |-> methods, TypeParams |-> typeParams]

NoData == [MethodName |-> "!notrun"]

\* the Syrup value generate builds for method i of an interface
SyrupOf(path, desc, i) ==
    [PkgPath |-> path,
     InterfaceName |-> desc.Name,
     Method |-> desc.Methods[i],
     Signature |-> desc.Methods[i].sig,
     TypeParams |-> desc.TypeParams]

MethodSyrup == SyrupOf(mPkg, iface, mIdx)

MethodIdle ==
    /\ iface = InterfaceDesc("", <<>>, <<>>)
    /\ mIdx = 0
    /\ mPkg = ""
    /\ mockData = NoData
    /\ callData = NoData
    /\ methodImports = NotRun

MethodInit ==
    /\ \E m \in Methods, tps \in TypeParamLists :
          \/ iface = InterfaceDesc("PiniaColada", <<m>>, tps)
          \/ \E sib \in Siblings :
                iface \in {InterfaceDesc("PiniaColada", <<m, sib>>, tps),
                           InterfaceDesc("PiniaColada", <<sib, m>>, tps)}
    /\ mIdx \in 1..Len(iface.Methods)
    /\ mPkg \in OwnPaths
    /\ mockData = NoData
    /\ callData = NoData
    /\ methodImports = NotRun

RunMockMethod ==
    /\ mockData = NoData
    /\ mockData' = MockMethod(MethodSyrup)
    /\ UNCHANGED <<iface, mIdx, mPkg, callData, methodImports>>
    /\ UNCHANGED <<typeVars, pipeVars, importVars, renderVars, descentVars>>

RunCall ==
    /\ callData = NoData
    /\ callData' = Call(MethodSyrup, iface.Methods)
    /\ UNCHANGED <<iface, mIdx, mPkg, mockData, methodImports>>
    /\ UNCHANGED <<typeVars, pipeVars, importVars, renderVars, descentVars>>

RunGetMethodImports ==
    /\ methodImports = NotRun
    /\ methodImports' = getMethodImports(iface.Methods[mIdx], mPkg)
    /\ UNCHANGED <<iface, mIdx, mPkg, mockData, callData>>
    /\ UNCHANGED <<typeVars, pipeVars, importVars, renderVars, descentVars>>

MethodNext == RunMockMethod \/ RunCall \/ RunGetMethodImports


-----------------------------------------------------------------------------
(* Render run: a template text is parsed, then Call and MockMethod of one  *)
(* Syrup value render into one writer.                                     *)

\* the template texts of TestSyrup_TemplateErrorHandling and the embedded file
TemplateTexts ==
    {"syntax_error", "missing_combinedCall", "missing_combinedMockMethod", "templates.go.tmpl"}

NotLoaded == {"!notloaded"}
\* the nil *template.Template Parse returns with an error
NilTemplate == {"!nil"}

\* base.Parse(text): the names the text defines, nil when it does not parse
ParseTemplate(text) ==
    CASE text = "syntax_error" -> NilTemplate
      [] text = "missing_combinedCall" -> {"imports", "mockBase", "combinedMockMethod"}
      [] text = "missing_combinedMockMethod" -> {"imports", "mockBase", "combinedCall"}
      [] OTHER -> {"imports", "mockBase", "combinedMockMethod", "combinedCall"}

\* an ExecuteTemplate that writes the data it gets before it looks the name up
ExecuteTemplate_WriteFirst(t, w, name, data) ==
    IF name \in t THEN [err |-> "", writer |-> Append(w, [kind |-> name, data |-> data])]
    ELSE [err |-> "no template " \o name, writer |-> Append(w, [kind |-> name, data |-> data])]

\* s.Template.ExecuteTemplate(writer, name, data): the error and the writer
ExecuteTemplate(t, w, name, data) ==
    IF name \in t THEN [err |-> "", writer |-> Append(w, [kind |-> name, data |-> data])]
    ELSE [err |-> "no template " \o name, writer |-> w]

\* the method runs of the render run: PiniaColada with one or two methods
RenderInterfaces ==
    {InterfaceDesc("PiniaColada", ms, tps) :
        ms \in {<<sib>> : sib \in Siblings}
                \cup {<<sib, Func("Rhum", MethodSig(<<Var("", TString)>>, rs, FALSE))>> :
                        sib \in Siblings, rs \in ResultTuples},
        tps \in TypeParamLists}

RenderIdle ==
    /\ templateFile = "templates.go.tmpl"
    /\ tmpl = NotLoaded
    /\ writer = <<>>
    /\ renderErr = ""

RenderInit ==
    /\ templateFile \in TemplateTexts
    /\ tmpl = NotLoaded
    /\ writer = <<>>
    /\ renderErr = ""
    /\ iface \in RenderInterfaces
    /\ mIdx \in 1..Len(iface.Methods)
    /\ mPkg \in OwnPaths
    /\ mockData = NoData
    /\ callData = NoData
    /\ methodImports = NotRun

\* the template set is constructed: a text that does not parse leaves no
\* template and the caller stops on the error
GetTemplate ==
    /\ tmpl = NotLoaded
    /\ tmpl' = ParseTemplate(templateFile)
    /\ renderErr' = IF ParseTemplate(templateFile) = NilTemplate THEN "parse template" ELSE ""
    /\ UNCHANGED <<templateFile, writer>>
    /\ UNCHANGED <<typeVars, methodVars, pipeVars, importVars, descentVars>>

\* Syrup.MockMethod(writer) on the parsed template
RenderMockMethod ==
    /\ tmpl \notin {NotLoaded, NilTemplate}
    /\ renderErr = ""
    /\ mockData = NoData
    /\ mockData' = MockMethod(MethodSyrup)
    /\ \E r \in {ExecuteTemplate(tmpl, writer, "combinedMockMethod", MockMethod(MethodSyrup))} :
          /\ writer' = r.writer
          /\ renderErr' = r.err
    /\ UNCHANGED <<templateFile, tmpl, iface, mIdx, mPkg, callData, methodImports>>
    /\ UNCHANGED <<typeVars, pipeVars, importVars, descentVars>>

\* Syrup.Call(writer, methods) on the parsed template
RenderCall ==
    /\ tmpl \notin {NotLoaded, NilTemplate}
    /\ renderErr = ""
    /\ callData = NoData
    /\ callData' = Call(MethodSyrup, iface.Methods)
    /\ \E r \in {ExecuteTemplate(tmpl, writer, "combinedCall", Call(MethodSyrup, iface.Methods))} :
          /\ writer' = r.writer
          /\ renderErr' = r.err
    /\ UNCHANGED <<templateFile, tmpl, iface, mIdx, mPkg, mockData, methodImports>>
    /\ UNCHANGED <<typeVars, pipeVars, importVars, descentVars>>

RenderNext == GetTemplate \/ RenderMockMethod \/ RenderCall

-----------------------------------------------------------------------------
(* The module the generator runs on: what packages.Load and the file       *)
(* system return.  Module m has the packages m/a and m/b.                  *)

ModuleName == "m"

\* *types.Package: Path() and Name()
Package(path, name) == [path |-> path, name |-> name]
NilPkg == Package("", "")
PkgA == Package("m/a", "a")
PkgB == Package("m/b", "b")
PkgC == Package("m/c", "c")

\* a file path: filepath.Dir and the last element
File(dir, base) == [dir |-> dir, base |-> base]

\* const srcMockFile, outputMockFile, outputExportedMockFile
srcMockFile == "mock_test.go"
outputMockFile == "mock_gen_test.go"
outputExportedMockFile == "mock_gen.go"

\* types.Object of a package scope: kind is the variant of Type().Underlying()
Object(pkg, name, isExported, file, kind, typeParams, methods) ==
    [pkg |-> pkg, name |-> name, exported |-> isExported, file |-> file, kind |-> kind,
     typeParams |-> typeParams, methods |-> methods]
\* Scope.Lookup found nothing
NoObject == Object(NilPkg, "", FALSE, File("", ""), "none", <<>>, <<>>)

Comparable == [name |-> "T", constraint |-> <<"comparable">>]

\* package m/a:
\*   type PiniaColada interface { Rhum(ctx context.Context, w Water) error
\*                                Pine(name string, more ...int) }
\*   type Empty interface{}
\*   type Water struct{}
\*   type shirleyTemple interface { Ale(r io.Reader) }
\*   type Coconut interface { Open(name string) error }
\*   type Cache[T comparable] interface { Get(key T) *Water }      (cache.go)
DeclsA ==
    <<Object(PkgA, "Cache", TRUE, File("a", "cache.go"), "Interface", <<Comparable>>,
             <<Func("Get", MethodSig(<<Var("key", TParamT)>>,
                                     <<Var("", Pointer(TWater))>>, FALSE))>>),
      Object(PkgA, "Coconut", TRUE, File("a", "a.go"), "Interface", <<>>,
             <<Func("Open", MethodSig(<<Var("name", TString)>>, <<Var("", TError)>>,
                                      FALSE))>>),
      Object(PkgA, "Empty", TRUE, File("a", "a.go"), "Interface", <<>>, <<>>),
      Object(PkgA, "PiniaColada", TRUE, File("a", "a.go"), "Interface", <<>>,
             <<Func("Rhum", MethodSig(<<Var("ctx", TContext), Var("w", TWater)>>,
                                      <<Var("", TError)>>, FALSE)),
               Func("Pine", MethodSig(<<Var("name", TString), Var("more", Slice(TInt))>>,
                                      <<>>, TRUE))>>),
      Object(PkgA, "Water", TRUE, File("a", "a.go"), "Struct", <<>>, <<>>),
      Object(PkgA, "shirleyTemple", FALSE, File("a", "a.go"), "Interface", <<>>,
             <<Func("Ale", MethodSig(<<Var("r", TReader)>>, <<>>, FALSE))>>)>>

\* package m/b:
\*   type Store interface { Save(w a.Water, opts struct{ F yaml.Node }) error
\*                          Load(string) (int, error) }
DeclsB ==
    <<Object(PkgB, "Store", TRUE, File("b", "b.go"), "Interface", <<>>,
             <<Func("Save", MethodSig(<<Var("w", TWater),
                                        Var("opts", Struct(<<"F">>, <<TNode>>))>>,
                                      <<Var("", TError)>>, FALSE)),
               Func("Load", MethodSig(<<Var("", TString)>>,
                                      <<Var("", TInt), Var("", TError)>>, FALSE))>>)>>

\* package m/c:
\*   type Foo interface { BarBaz() }
\*   type FooBar interface { Baz() }
DeclsC ==
    <<Object(PkgC, "Foo", TRUE, File("c", "c.go"), "Interface", <<>>,
             <<Func("BarBaz", MethodSig(<<>>, <<>>, FALSE))>>),
      Object(PkgC, "FooBar", TRUE, File("c", "c.go"), "Interface", <<>>,
             <<Func("Baz", MethodSig(<<>>, <<>>, FALSE))>>)>>

\* the declarations of a package in the order of Scope.Names() (sorted)
Decls(path) ==
    CASE path = "m/a" -> DeclsA
      [] path = "m/b" -> DeclsB
      [] path = "m/c" -> DeclsC
      [] OTHER -> <<>>

\* pkgs[0].Types.Scope().Lookup(name)
Lookup(path, name) ==
    LET found == {i \in 1..Len(Decls(path)) : Decls(path)[i].name = name}
    IN  IF found = {} THEN NoObject ELSE Decls(path)[CHOOSE i \in found : TRUE]

\* path.Join(moduleName, dir)
PathJoin(module, dir) == module \o "/" \o dir

\* the source files os.Stat finds
ExistingFiles ==
    {File("a", "a.go"), File("a", "cache.go"), File("b", "b.go"), File("c", "c.go")}

-----------------------------------------------------------------------------
(* The model builders. *)

PackageDesc(pkg, imports, interfaces) ==
    [Pkg |-> pkg, Imports |-> imports, Interfaces |-> interfaces]

\* the import paths the methods of a declaration add for the owning path
ImportsOf(methods, path) ==
    UNION {Range(getMethodImports(methods[i], path)) : i \in 1..Len(methods)}

RECURSIVE ScanFileWith(_, _, _, _, _)
\* a scanner loop that treats a failed lookup and a declaration that is not
\* an interface as told: "skip" the annotation or "fail" the walk
ScanFileWith(dir, lines, packageDesc, onMissing, onShape) ==
    IF lines = <<>> THEN [err |-> "", desc |-> packageDesc]
    ELSE LET line == Head(lines)
             importPath == IF line.qual # "" THEN ModuleName \o "/" \o line.qual
                           ELSE ModuleName \o "/" \o dir
             lookup == Lookup(importPath, line.name)
             pkg == IF packageDesc.Pkg = NilPkg THEN lookup.pkg ELSE packageDesc.Pkg
         IN  IF lookup = NoObject /\ onMissing = "skip"
             THEN ScanFileWith(dir, Tail(lines), packageDesc, onMissing, onShape)
             ELSE IF lookup = NoObject
             THEN [err |-> "is not an interface", desc |-> packageDesc]
             ELSE IF lookup.kind # "Interface" /\ onShape = "skip"
             THEN ScanFileWith(dir, Tail(lines), packageDesc, onMissing, onShape)
             ELSE IF lookup.kind # "Interface"
             THEN [err |-> "is not an interface", desc |-> packageDesc]
             ELSE ScanFileWith(dir, Tail(lines),
                               [Pkg |-> pkg,
                                Imports |-> packageDesc.Imports
                                    \cup UNION {Range(getMethodImports(lookup.methods[i], pkg.path)) :
                                                    i \in 1..Len(lookup.methods)},
                                Interfaces |-> Append(packageDesc.Interfaces,
                                                      InterfaceDesc(line.name, lookup.methods,
                                                                    lookup.typeParams))],
                               onMissing, onShape)

\* a walk that a failed lookup aborts
ScanFile_LookupFatal(dir, lines, packageDesc) ==
    ScanFileWith(dir, lines, packageDesc, "fail", "fail")

\* a walk that passes over a declaration that is not an interface
ScanFile_ShapeSkipped(dir, lines, packageDesc) ==
    ScanFileWith(dir, lines, packageDesc, "skip", "skip")

RECURSIVE ScanFile(_, _, _)
\* the scanner loop of walk's callback over the `// mocktail:` lines left in
\* the mock_test.go file of directory dir; err is "" when the loop ends
ScanFile(dir, lines, packageDesc) ==
    IF lines = <<>> THEN [err |-> "", desc |-> packageDesc]
    ELSE LET line == Head(lines)
             importPath == IF line.qual # "" THEN PathJoin(ModuleName, line.qual)
                           ELSE PathJoin(ModuleName, dir)
             lookup == Lookup(importPath, line.name)
             pkg == IF packageDesc.Pkg = NilPkg THEN lookup.pkg ELSE packageDesc.Pkg
             interfaceDesc == InterfaceDesc(line.name, lookup.methods, lookup.typeParams)
         IN  IF lookup = NoObject THEN ScanFile(dir, Tail(lines), packageDesc)
             ELSE IF lookup.kind # "Interface"
             THEN [err |-> "is not an interface", desc |-> packageDesc]
             ELSE ScanFile(dir, Tail(lines),
                           PackageDesc(pkg,
                                       packageDesc.Imports
                                           \cup ImportsOf(lookup.methods, pkg.path),
                                       Append(packageDesc.Interfaces, interfaceDesc)))

\* an allow-list that lets every name through
Allowed_Any(name, targetInterfaces) == TRUE

\* the test of the scope loop on the allow-list parseInterfaceFilter returns:
\* nil (here the empty set) for the empty flag, the set of the names otherwise
Allowed(name, targetInterfaces) == targetInterfaces = {} \/ name \in targetInterfaces

RECURSIVE ScanScope(_, _, _, _)
\* the loop of processSingleFile over scope.Names(), with the allow-list of
\* the interface flag
ScanScope(pkg, decls, packageDesc, targetInterfaces) ==
    IF decls = <<>> THEN packageDesc
    ELSE LET obj == Head(decls)
             interfaceDesc == InterfaceDesc(obj.name, obj.methods, <<>>)
         IN  IF ~obj.exported \/ ~Allowed(obj.name, targetInterfaces)
                \/ obj.kind # "Interface"
             THEN ScanScope(pkg, Tail(decls), packageDesc, targetInterfaces)
             ELSE ScanScope(pkg, Tail(decls),
                            PackageDesc(packageDesc.Pkg,
                                        packageDesc.Imports
                                            \cup ImportsOf(obj.methods, pkg.path),
                                        IF Len(interfaceDesc.Methods) > 0
                                        THEN Append(packageDesc.Interfaces, interfaceDesc)
                                        ELSE packageDesc.Interfaces),
                            targetInterfaces)

\* processSingleFile(sourceFile, root, moduleName, interfaceFilter): the error
\* and the model
processSingleFile(source, targetInterfaces) ==
    LET importPath == PathJoin(ModuleName, source.dir)
        pkg == CASE importPath = "m/a" -> PkgA
                 [] importPath = "m/b" -> PkgB
                 [] OTHER -> PkgC
        packageDesc == ScanScope(pkg, Decls(importPath), PackageDesc(pkg, {}, <<>>),
                                 targetInterfaces)
        outputKey == File(source.dir, srcMockFile)
    IN  IF source \notin ExistingFiles
        THEN [err |-> "source file does not exist", model |-> <<>>]
        ELSE IF Len(packageDesc.Interfaces) > 0
        THEN [err |-> "", model |-> [f \in {outputKey} |-> packageDesc]]
        ELSE [err |-> "", model |-> <<>>]

-----------------------------------------------------------------------------
(* Rendering. *)

ForcedImports == {"testing", "time", "github.com/stretchr/testify/mock"}

\* every import path of the run, in ascending order of the strings
PathOrder ==
    <<"context", "github.com/stretchr/testify/mock", "gopkg.in/yaml.v3", "io", "m/a", "m/b",
      "testing", "time">>
\* imports[i] < imports[j]
StringLess(x, y) ==
    (CHOOSE i \in 1..Len(PathOrder) : PathOrder[i] = x)
        < (CHOOSE i \in 1..Len(PathOrder) : PathOrder[i] = y)
\* strings.Contains(imp, ".")
HasDot(imp) == imp \in {"github.com/stretchr/testify/mock", "gopkg.in/yaml.v3"}

\* a less function that puts the separator after every path
ImportLess_SeparatorLast(x, y) ==
    IF x = "" THEN FALSE
    ELSE IF y = "" THEN TRUE
    ELSE IF HasDot(x) /\ ~HasDot(y) THEN FALSE
    ELSE IF ~HasDot(x) /\ HasDot(y) THEN TRUE
    ELSE StringLess(x, y)

\* the less function of quickGoImports
ImportLess(x, y) ==
    IF x = "" THEN HasDot(y)
    ELSE IF y = "" THEN ~HasDot(x)
    ELSE IF HasDot(x) /\ ~HasDot(y) THEN FALSE
    ELSE IF ~HasDot(x) /\ HasDot(y) THEN TRUE
    ELSE StringLess(x, y)

RECURSIVE InsertAt(_, _, _)
\* the inner loop of the insertion sort, `for j := i; j > a && less(data[j],
\* data[j-1]); j--`: x has passed the elements of sorted after index j
InsertAt(sorted, x, j) ==
    IF j > 0 /\ ImportLess(x, sorted[j]) THEN InsertAt(sorted, x, j - 1)
    ELSE SubSeq(sorted, 1, j) \o <<x>> \o SubSeq(sorted, j + 1, Len(sorted))

\* a sort that leaves the slice as the range loop filled it
InsertionSort_Unsorted(data) == data

RECURSIVE InsertionSort(_)
\* sort.Slice(imports, less) on a slice of at most 12 elements: insertion sort
\* (the sets bind the sorted prefix and the next element to one value each)
InsertionSort(data) ==
    IF data = <<>> THEN <<>>
    ELSE CHOOSE result \in {InsertAt(sorted, x, Len(sorted)) :
                                sorted \in {InsertionSort(SubSeq(data, 1, Len(data) - 1))},
                                x \in {data[Len(data)]}} : TRUE

RECURSIVE RangeOrders(_)
\* the orders in which `for imp := range` can yield the keys of a map
RangeOrders(keys) ==
    IF keys = {} THEN {<<>>}
    ELSE UNION {{<<x>> \o order : order \in RangeOrders(keys \ {x})} : x \in keys}

\* an import set the time package is not forced into
ImportsAfterRender_NoTime(imports) ==
    imports \cup {"testing", "github.com/stretchr/testify/mock"}

\* the import set of descPkg after quickGoImports has written to its map
ImportsAfterRender(imports) == imports \cup ForcedImports

\* quickGoImports(descPkg), the range loop yielding the keys in this order
quickGoImports(descPkg, order) == InsertionSort(<<"">> \o order)

\* the template fragments
Fragments == {"imports", "mockBase", "combinedMockMethod", "combinedCall"}

Fragment(kind, data) == [kind |-> kind, data |-> data]

\* a mock base whose constructor is never exported
writeMockBase_Unexported(interfaceDesc, isExported) ==
    [InterfaceName |-> interfaceDesc.Name,
     ConstructorPrefix |-> "new",
     TypeParamsDecl |-> TypeParamsDecl(interfaceDesc.TypeParams),
     TypeParamsUse |->
        IF Len(interfaceDesc.TypeParams) = 0 THEN <<>>
        ELSE <<"[">> \o Join([i \in 1..Len(interfaceDesc.TypeParams) |->
                                <<interfaceDesc.TypeParams[i].name>>], <<",">>) \o <<"]">>]

\* writeMockBase: the data of "mockBase"
writeMockBase(interfaceDesc, isExported) ==
    [InterfaceName |-> interfaceDesc.Name,
     ConstructorPrefix |-> IF isExported THEN "New" ELSE "new",
     TypeParamsDecl |-> TypeParamsDecl(interfaceDesc.TypeParams),
     TypeParamsUse |->
        IF Len(interfaceDesc.TypeParams) = 0 THEN <<>>
        ELSE <<"[">> \o Join([i \in 1..Len(interfaceDesc.TypeParams) |->
                                <<interfaceDesc.TypeParams[i].name>>], <<",">>) \o <<"]">>]

\* writeImports: the data of "imports"
writeImports(descPkg, order) ==
    [Name |-> descPkg.Pkg.name, Imports |-> quickGoImports(descPkg, order)]

\* an interface whose call wrappers are rendered before the mock stubs
InterfaceFragments_CallFirst(pkgDesc, interfaceDesc, isExported) ==
    [j \in 1..(1 + 2 * Len(interfaceDesc.Methods)) |->
        IF j = 1 THEN Fragment("mockBase", writeMockBase(interfaceDesc, isExported))
        ELSE IF j % 2 = 1
        THEN Fragment("combinedMockMethod",
                      MockMethod(SyrupOf(pkgDesc.Pkg.path, interfaceDesc, j \div 2)))
        ELSE Fragment("combinedCall",
                      Call(SyrupOf(pkgDesc.Pkg.path, interfaceDesc, j \div 2),
                           interfaceDesc.Methods))]

\* the fragments generate renders for one interface, in order: the mock base,
\* then MockMethod and Call of each method
InterfaceFragments(pkgDesc, interfaceDesc, isExported) ==
    [j \in 1..(1 + 2 * Len(interfaceDesc.Methods)) |->
        IF j = 1 THEN Fragment("mockBase", writeMockBase(interfaceDesc, isExported))
        ELSE IF j % 2 = 0
        THEN Fragment("combinedMockMethod",
                      MockMethod(SyrupOf(pkgDesc.Pkg.path, interfaceDesc, j \div 2)))
        ELSE Fragment("combinedCall",
                      Call(SyrupOf(pkgDesc.Pkg.path, interfaceDesc, j \div 2),
                           interfaceDesc.Methods))]

RECURSIVE FragmentsFrom(_, _, _)
\* the fragments of the interfaces of pkgDesc from index k on
FragmentsFrom(pkgDesc, k, isExported) ==
    IF k > Len(pkgDesc.Interfaces) THEN <<>>
    ELSE InterfaceFragments(pkgDesc, pkgDesc.Interfaces[k], isExported)
         \o FragmentsFrom(pkgDesc, k + 1, isExported)

\* the fragments generate renders for one package, in order
PackageFragments(pkgDesc, isExported, order) ==
    <<Fragment("imports", writeImports(pkgDesc, order))>>
    \o FragmentsFrom(pkgDesc, 1, isExported)

\* the type expressions of a fragment
FragmentTypes(f) ==
    IF f.kind = "combinedMockMethod"
    THEN {f.data.Params[i].Type : i \in 1..Len(f.data.Params)}
         \cup {f.data.Results[i].Type : i \in 1..Len(f.data.Results)}
    ELSE {}

\* the type expressions of the buffer
BufferTypes(buffer) == UNION {FragmentTypes(buffer[i]) : i \in 1..Len(buffer)}

\* parser.ParseFile rejects the type expression
SyntaxError(text) == ~ParseParam(text).ok \/ ParseParam(text).rest # <<>>

\* mutant: the formatter accepts every buffer
FormatFails_Never(buffer) == FALSE

\* format.Source: the buffer does not parse when a type expression does not
FormatFails(buffer) == \E text \in BufferTypes(buffer) : SyntaxError(text)

-----------------------------------------------------------------------------
(* Generator run: main, walk, processSingleFile, generate. *)

\* the collected import sets drawn for an import list run
ImportPaths == {"context", "io", "m/b", "gopkg.in/yaml.v3", "testing"}

ImportIdle ==
    /\ importSet = {}
    /\ importOrder = NotRun
    /\ importList = NotRun

ImportInit ==
    /\ importSet \in SUBSET ImportPaths
    /\ importOrder = NotRun
    /\ importList = NotRun

\* one call of quickGoImports, the range loop yielding the keys in any order
RunQuickGoImports ==
    /\ importList = NotRun
    /\ importSet' = ImportsAfterRender(importSet)
    /\ \E order \in RangeOrders(ImportsAfterRender(importSet)) :
          /\ importOrder' = order
          /\ importList' = quickGoImports(PackageDesc(PkgA, importSet, <<>>), order)
    /\ UNCHANGED <<typeVars, methodVars, pipeVars, renderVars, descentVars>>

\* a `// mocktail:` line: the text before the last "." and the text after it
Annotation(qual, name) == [qual |-> qual, name |-> name]

AnnotationsA ==
    {Annotation("", "PiniaColada"), Annotation("", "Empty"), Annotation("", "Cache"),
     Annotation("", "Water"), Annotation("", "Missing"), Annotation("b", "Store")}
AnnotationsB ==
    {Annotation("", "Store"), Annotation("", "Missing"), Annotation("a", "Cache"),
     Annotation("a", "Water")}

\* the sequences over S of at most n elements
SeqUpTo(S, n) == UNION {[1..k -> S] : k \in 0..n}

Dirs == <<"a", "b">>

NoFiles == [d \in Range(Dirs) |-> <<>>]
NoSource == File("", "")
NoModel == <<>>

\* the template files of TestSyrup_TemplateErrorHandling that parse
TemplateFiles ==
    {Fragments, Fragments \ {"combinedCall"}, Fragments \ {"combinedMockMethod"}}

SourceFiles == ExistingFiles \cup {File("a", "missing.go")}

\* the allow-lists of the interface flag
Filters ==
    {{}, {"PiniaColada"}, {"Coconut", "PiniaColada"}, {"NonExistentInterface"},
     {"PiniaColada", "NonExistentInterface"}}

PipeIdle ==
    /\ mode = "walk"
    /\ exported = FALSE
    /\ templates = Fragments
    /\ mockFiles = NoFiles
    /\ sourceFile = NoSource
    /\ interfaceFilter = {}
    /\ phase = "done"
    /\ toVisit = <<>>
    /\ model = NoModel
    /\ genLeft = {}
    /\ written = {}
    /\ err = ""

Init ==
    /\ mode \in {"walk", "single"}
    /\ exported \in BOOLEAN
    /\ templates \in TemplateFiles
    /\ IF mode = "walk"
       THEN /\ mockFiles \in {[d \in Range(Dirs) |-> IF d = "a" THEN la ELSE lb] :
                                la \in SeqUpTo(AnnotationsA, MaxAnnotations),
                                lb \in SeqUpTo(AnnotationsB, MaxAnnotations)}
            /\ sourceFile = NoSource
            /\ interfaceFilter = {}
            /\ toVisit = Dirs
       ELSE /\ mockFiles = NoFiles
            /\ sourceFile \in SourceFiles
            /\ interfaceFilter \in Filters
            /\ toVisit = <<>>
    /\ phase = mode
    /\ model = NoModel
    /\ genLeft = {}
    /\ written = {}
    /\ err = ""
    /\ TypeIdle
    /\ MethodIdle
    /\ ImportIdle
    /\ RenderIdle
    /\ DescentIdle

\* m with key fp set to desc
Put(m, fp, desc) == [f \in DOMAIN m \cup {fp} |-> IF f = fp THEN desc ELSE m[f]]

\* walk: the callback of filepath.WalkDir on the mock_test.go of the next
\* directory; after the last one walk returns the model to main
WalkFile ==
    /\ phase = "walk"
    /\ toVisit # <<>>
    /\ LET dir == Head(toVisit)
           fp == File(dir, srcMockFile)
           scan == ScanFile(dir, mockFiles[dir], PackageDesc(NilPkg, {}, <<>>))
       IN  IF scan.err # ""
           THEN /\ phase' = "fatal"
                /\ err' = "walk: " \o scan.err
                /\ model' = NoModel
                /\ UNCHANGED toVisit
           ELSE /\ model' = IF Len(scan.desc.Interfaces) > 0
                             THEN Put(model, fp, scan.desc) ELSE model
                /\ toVisit' = Tail(toVisit)
                /\ phase' = IF Tail(toVisit) = <<>> THEN "built" ELSE "walk"
                /\ UNCHANGED err
    /\ UNCHANGED <<mode, exported, templates, mockFiles, sourceFile, interfaceFilter, genLeft,
                   written>>
    /\ UNCHANGED <<typeVars, methodVars, importVars, renderVars, descentVars>>

\* main with the source flag set: processSingleFile
ProcessSingleFile ==
    /\ phase = "single"
    /\ LET r == processSingleFile(sourceFile, interfaceFilter)
       IN  IF r.err # ""
           THEN /\ phase' = "fatal"
                /\ err' = "process single file: " \o r.err
                /\ UNCHANGED model
           ELSE /\ model' = r.model
                /\ phase' = "built"
                /\ UNCHANGED err
    /\ UNCHANGED <<mode, exported, templates, mockFiles, sourceFile, interfaceFilter, toVisit,
                   genLeft, written>>
    /\ UNCHANGED <<typeVars, methodVars, importVars, renderVars, descentVars>>

\* main: nothing to generate for an empty model, generate otherwise
StartGenerate ==
    /\ phase = "built"
    /\ phase' = IF DOMAIN model = {} THEN "done" ELSE "generate"
    /\ genLeft' = DOMAIN model
    /\ UNCHANGED <<mode, exported, templates, mockFiles, sourceFile, interfaceFilter, toVisit,
                   model, written, err>>
    /\ UNCHANGED <<typeVars, methodVars, importVars, renderVars, descentVars>>

\* the first fragment of the buffer the template file does not define, 0 when
\* every ExecuteTemplate call succeeds
RenderError(buffer) ==
    LET bad == {i \in 1..Len(buffer) : buffer[i].kind \notin templates}
    IN  IF bad = {} THEN 0 ELSE CHOOSE i \in bad : \A j \in bad : i <= j

\* generate: one iteration of the loop over the model, for the key the map
\* iteration yields next
GeneratePackage ==
    /\ phase = "generate"
    /\ \E fp \in genLeft :
       \E head \in {Fragment("imports", writeImports(model[fp], order)) :
                        order \in RangeOrders(ImportsAfterRender(model[fp].Imports))} :
       \E buffer \in {<<head>> \o FragmentsFrom(model[fp], 1, exported)} :
       \E writeOk \in BOOLEAN :
         LET failed == RenderError(buffer)
             fileName == IF exported THEN outputExportedMockFile ELSE outputMockFile
             out == File(fp.dir, fileName)
         IN  /\ model' = [model EXCEPT ![fp].Imports = ImportsAfterRender(@)]
             /\ IF failed # 0
                THEN /\ phase' = "fatal"
                     /\ err' = "generate: template: no template " \o buffer[failed].kind
                     /\ UNCHANGED <<genLeft, written>>
                ELSE IF FormatFails(buffer)
                THEN /\ phase' = "fatal"
                     /\ err' = "generate: source"
                     /\ UNCHANGED <<genLeft, written>>
                ELSE IF ~writeOk
                THEN /\ phase' = "fatal"
                     /\ err' = "generate: write file"
                     /\ UNCHANGED <<genLeft, written>>
                ELSE /\ written' = written \cup {[out |-> out, source |-> buffer]}
                     /\ genLeft' = genLeft \ {fp}
                     /\ phase' = IF genLeft = {fp} THEN "done" ELSE "generate"
                     /\ UNCHANGED err
    /\ UNCHANGED <<mode, exported, templates, mockFiles, sourceFile, interfaceFilter, toVisit>>
    /\ UNCHANGED <<typeVars, methodVars, importVars, renderVars, descentVars>>

Next == WalkFile \/ ProcessSingleFile \/ StartGenerate \/ GeneratePackage

Spec == Init /\ [][Next]_vars

\* a resolver run: no method run, no generator run
InitType == TypeInit /\ MethodIdle /\ PipeIdle /\ ImportIdle /\ RenderIdle /\ DescentIdle

SpecType == InitType /\ [][TypeNext]_vars

\* a method run: no resolver run, no generator run
InitMethod == MethodInit /\ TypeIdle /\ PipeIdle /\ ImportIdle /\ RenderIdle /\ DescentIdle

SpecMethod == InitMethod /\ [][MethodNext]_vars

\* an import list run: no resolver run, no method run, no generator run
InitImports == ImportInit /\ TypeIdle /\ MethodIdle /\ PipeIdle /\ RenderIdle /\ DescentIdle

SpecImports == InitImports /\ [][RunQuickGoImports]_vars

\* a render run: no resolver run, no generator run, no import list run
InitRender == RenderInit /\ TypeIdle /\ PipeIdle /\ ImportIdle /\ DescentIdle

SpecRender == InitRender /\ [][RenderNext]_vars

\* a descent run: no other run
InitDescent ==
    DescentInit /\ TypeIdle /\ MethodIdle /\ PipeIdle /\ ImportIdle /\ RenderIdle

\* the calls are made one after the other by one goroutine: a call that can
\* be made is made
SpecDescent == InitDescent /\ [][VisitType]_vars /\ WF_vars(VisitType)

-----------------------------------------------------------------------------
(* Properties of the resolver. *)

\* the <qualifier, name> pairs of a type expression
QualifiedPairs(toks) ==
    {<<toks[i - 1], toks[i + 1]>> : i \in {j \in 2..(Len(toks) - 1) : toks[j] = "."}}

\* the identifiers of a type expression that stand alone
BareNames(toks) ==
    {toks[i] : i \in {j \in 1..Len(toks) :
        /\ IsIdent(toks[j])
        /\ (j = 1 \/ toks[j - 1] # ".")
        /\ (j = Len(toks) \/ toks[j + 1] # ".")}}

NamedIn(t) == {u \in SubTypes(t) : u.k = "Named"}
IsForeign(u, path) == u.k = "Named" /\ u.p # "" /\ u.p # path

\* C2: a named type is written bare when it belongs to the owning package or
\* to no package, and <package name>.<name> when it belongs to another
\* package; this holds for every named type nested in pointer, slice, array,
\* map, channel and function types, and the expression holds no other
\* qualifier and no bare name of a type of another package.
C2_Qualification ==
    (typeName \notin {NotRun, Panic} /\ IsPlain(ty)) =>
        /\ \A u \in NamedIn(ty) :
            /\ getNamedTypeName(TypeSyrup, u) =
                    (IF u.p = pkgPath THEN <<u.a>>
                     ELSE IF u.p # "" THEN <<u.q, ".", u.a>> ELSE <<u.a>>)
            /\ IF IsForeign(u, pkgPath)
               THEN <<u.q, u.a>> \in QualifiedPairs(typeName)
               ELSE u.a \in BareNames(typeName)
        /\ \A pr \in QualifiedPairs(typeName) :
            \E u \in NamedIn(ty) : IsForeign(u, pkgPath) /\ u.q = pr[1] /\ u.a = pr[2]
        /\ \A b \in BareNames(typeName) :
            \E u \in SubTypes(ty) : u.a = b /\ ~IsForeign(u, pkgPath)

\* C2 witness: a map whose key is a type of the owning package and whose
\* element points to a type of another package has been resolved.
C2_Witness ==
    /\ ty = Map(TWater, Pointer(TNode))
    /\ pkgPath = "m/a"
    /\ typeName = <<"map", "[", "Water", "]", "*", "yaml", ".", "Node">>

RECURSIVE SameShape(_, _)
\* the syntax tree x is the syntax of the type descriptor t
SameShape(x, t) ==
    CASE t.k \in {"Basic", "TypeParam"} -> x.k = "Ident" /\ x.a = t.a
      [] t.k = "Named" ->
            \/ x.k = "Ident" /\ x.a = t.a
            \/ x.k = "SelectorExpr" /\ x.a = t.a /\ x.q = t.q
      [] t.k = "Slice" -> x.k = "ArrayType" /\ x.a = "" /\ SameShape(x.ch[1], t.ch[1])
      [] t.k = "Array" ->
            x.k = "ArrayType" /\ x.a = ToString(t.n) /\ SameShape(x.ch[1], t.ch[1])
      [] t.k = "Pointer" -> x.k = "StarExpr" /\ SameShape(x.ch[1], t.ch[1])
      [] t.k = "Map" ->
            x.k = "MapType" /\ SameShape(x.ch[1], t.ch[1]) /\ SameShape(x.ch[2], t.ch[2])
      [] t.k = "Chan" -> x.k = "ChanType" /\ x.a = t.a /\ SameShape(x.ch[1], t.ch[1])
      [] t.k = "Signature" ->
            /\ x.k = "FuncType"
            /\ x.n = t.n
            /\ Len(x.ch) = Len(t.ch)
            /\ \A i \in 1..Len(t.ch) :
                IF Variadic(t) /\ i = t.n
                THEN x.ch[i].k = "Ellipsis" /\ SameShape(x.ch[i].ch[1], t.ch[i].ch[1])
                ELSE SameShape(x.ch[i], t.ch[i])
      [] OTHER -> FALSE

\* the syntax of a parameter: the final slice of a variadic signature is ...elem
SameParamShape(x, t) ==
    IF sigVariadic /\ last /\ t.k = "Slice"
    THEN x.k = "Ellipsis" /\ SameShape(x.ch[1], t.ch[1])
    ELSE SameShape(x, t)

\* C3: parsing the expression getTypeName returns for a type built from the
\* supported variants gives back the shape of that type (pointer depth,
\* slice or variadic, map key and element, channel direction and element,
\* generic parameter name).
C3_RoundTrip ==
    (parsed # NotParsed /\ IsPlain(ty)) =>
        parsed.ok /\ parsed.rest = <<>> /\ SameParamShape(parsed.ty, ty)

\* the two shapes getTypeName does not write back faithfully
LosesShape(t) ==
    \E u \in SubTypes(t) :
        \/ u.k = "Signature" /\ Variadic(u)
        \/ u.k = "Chan" /\ u.a = "SendRecv" /\ u.ch[1].k = "Chan" /\ u.ch[1].a = "RecvOnly"

RoundTripElsewhere ==
    (parsed # NotParsed /\ IsPlain(ty) /\ ~LosesShape(ty)) =>
        parsed.ok /\ parsed.rest = <<>> /\ SameParamShape(parsed.ty, ty)

-----------------------------------------------------------------------------
(* Properties of the method data. *)

IsVariadicForm(text) == text # <<>> /\ Head(text) = "..."

\* the parameter entries agree with the slice / variadic rule of signature sig
VariadicRule(entries, sig) ==
    \A i \in 1..sig.n :
        /\ IsVariadicForm(entries[i].Type) <=>
                (sig.ch[i].k = "Slice" /\ i = sig.n /\ Variadic(sig))
        /\ "..." \notin Range(Tail(entries[i].Type))

\* C1: a slice is written ...elem exactly when it is the type of the last
\* parameter of a variadic signature, in the parameter list of the stub and
\* in the parameter list of every sibling method that Call builds, where the
\* signature that counts is the sibling's own.
C1_VariadicOnlyLastOfVariadic ==
    /\ mockData # NoData => VariadicRule(mockData.Params, iface.Methods[mIdx].sig)
    /\ callData # NoData =>
        \A j \in 1..Len(iface.Methods) :
            VariadicRule(callData.Methods[j].Params, iface.Methods[j].sig)

\* the types of the parameters and results of a method, with their texts
TypeTexts(method, data) ==
    {<<method.sig.ch[i], data.Params[i].Type>> : i \in 1..method.sig.n}
    \cup {<<method.sig.ch[method.sig.n + i], data.Results[i].Type>> :
            i \in 1..Len(data.Results)}

\* C4: the import path of every package of another package whose name is
\* written as a qualifier in a parameter or result type expression of a
\* method is in the list getMethodImports returns for that method.
C4_ImportsCoverQualifiers ==
    (mockData # NoData /\ methodImports # NotRun) =>
        \A tt \in TypeTexts(iface.Methods[mIdx], mockData) :
            \A u \in NamedIn(tt[1]) :
                (IsForeign(u, mPkg) /\ <<u.q, u.a>> \in QualifiedPairs(tt[2]))
                    => u.p \in Range(methodImports)

HasContextParam(method) == \E i \in 1..method.sig.n : IsContext(method.sig.ch[i])

\* the packages a method refers to outside its context.Context parameters
PathsBesideContext(method) ==
    {u.p : u \in UNION {NamedIn(method.sig.ch[i]) :
                            i \in {j \in 1..Len(method.sig.ch) :
                                    j > method.sig.n \/ ~IsContext(method.sig.ch[j])}}}

\* C5 as stated: for a method with a context.Context parameter that refers
\* to the context package nowhere else, getMethodImports does not return
\* "context".
C5_ContextNotImported ==
    (methodImports # NotRun /\ HasContextParam(iface.Methods[mIdx])
        /\ "context" \notin PathsBesideContext(iface.Methods[mIdx]))
    => "context" \notin Range(methodImports)

\* C5 amended: for a method with a context.Context parameter, and an owning
\* package other than context, getMethodImports returns "context".
C5_ContextImported ==
    (methodImports # NotRun /\ HasContextParam(iface.Methods[mIdx]) /\ mPkg # "context")
    => "context" \in Range(methodImports)

\* C5 witness: the imports of a method (ctx context.Context, w Water) were
\* collected.
C5_Witness ==
    /\ methodImports # NotRun
    /\ iface.Methods[mIdx].sig.n = 2
    /\ IsContext(iface.Methods[mIdx].sig.ch[1])
    /\ iface.Methods[mIdx].sig.ch[2] = TWater

\* C7: the context.Context first parameter of a method stays in the stub's
\* parameter list, named _ and flagged IsContext, and is in none of CallArgs,
\* OnCallArgs, the function signatures and InputParams: each of these has
\* one entry per other parameter and names neither _ nor context.Context.
C7_ContextElision ==
    LET m == iface.Methods[mIdx]
        params == ParamVars(m.sig)
        others == {i \in 1..Len(params) : ~(params[i].type = TContext)}
        ctxNames == ({"_"} \cup {params[1].name, "_" \o params[1].name}) \ {""}
    IN  (m.sig.n > 0 /\ m.sig.ch[1] = TContext) =>
        /\ mockData # NoData =>
            /\ Len(mockData.Params) = Len(params)
            /\ mockData.Params[1] = Parameter("_", contextType, TRUE, 0)
            /\ Len(mockData.CallArgs) = Cardinality(others)
            /\ Len(mockData.OnCallArgs) = Cardinality(others)
            /\ Range(mockData.CallArgs) \cap ctxNames = {}
            /\ Range(mockData.OnCallArgs) \cap ctxNames = {}
            /\ "Context" \notin Range(mockData.FnSignature)
        /\ callData # NoData =>
            /\ Len(callData.InputParams) = Cardinality(others)
            /\ \A k \in 1..Len(callData.InputParams) :
                /\ callData.InputParams[k].Name \notin ctxNames
                /\ "Context" \notin Range(callData.InputParams[k].Type)
            /\ "Context" \notin Range(callData.ReturnsFnSignature)
            /\ "Context" \notin Range(callData.TypedRunFnSignature)

\* C7 witness: stub and wrapper data exist for a method
\* (x context.Context, y string).
C7_Witness ==
    /\ mockData # NoData
    /\ callData # NoData
    /\ ParamVars(iface.Methods[mIdx].sig) = <<Var("x", TContext), Var("y", TString)>>
    /\ mockData.CallArgs = <<"y">>

-----------------------------------------------------------------------------
(* Properties of the generator run. *)

\* every method declared in the module
DeclaredMethods ==
    UNION {Range(DeclsA[i].methods) : i \in 1..Len(DeclsA)}
    \cup UNION {Range(DeclsB[i].methods) : i \in 1..Len(DeclsB)}

\* the model is what walk or processSingleFile built: generate has not run yet
ModelAsBuilt == phase \in {"walk", "single", "built"}

\* C6: the list getMethodImports returns for a method and an owning path P
\* holds neither "" nor P, and in the model walk or processSingleFile
\* returns, the Imports of a PackageDesc hold neither "" nor the path of
\* its Pkg.
C6_ImportsFiltered ==
    /\ \A m \in DeclaredMethods, P \in OwnPaths :
          LET imports == Range(getMethodImports(m, P))
          IN  "" \notin imports /\ P \notin imports
    /\ ModelAsBuilt =>
          \A fp \in DOMAIN model :
              "" \notin model[fp].Imports /\ model[fp].Pkg.path \notin model[fp].Imports

\* walk has built the package of a/mock_test.go from PiniaColada, whose
\* methods take context.Context, the package's own Water and basic types:
\* only "context" is left
C6_Witness ==
    /\ phase = "built"
    /\ mode = "walk"
    /\ File("a", srcMockFile) \in DOMAIN model
    /\ model[File("a", srcMockFile)].Pkg = PkgA
    /\ \E i \in 1..Len(model[File("a", srcMockFile)].Interfaces) :
          model[File("a", srcMockFile)].Interfaces[i].Name = "PiniaColada"
    /\ model[File("a", srcMockFile)].Imports = {"context"}

TDecl == <<"[", "T", "comparable", "]">>
TUse == <<"[", "T", "]">>

\* the fragments of the written files that belong to the interface
FragmentsFor(name) ==
    UNION {{w.source[i] : i \in {j \in 2..Len(w.source) :
                                    w.source[j].data.InterfaceName = name}} :
           w \in written}

\* C8: in both modes the generic interface Cache[T comparable] keeps its type
\* parameters in the model, and its mock base, mock methods and call
\* wrappers are rendered with `[T comparable]` and `[T]`.
C8_GenericPropagation ==
    /\ \A fp \in DOMAIN model : \A i \in 1..Len(model[fp].Interfaces) :
          model[fp].Interfaces[i].Name = "Cache"
              => model[fp].Interfaces[i].TypeParams = Lookup("m/a", "Cache").typeParams
    /\ \A f \in FragmentsFor("Cache") :
          /\ f.data.TypeParamsUse = TUse
          /\ f.kind \in {"mockBase", "combinedCall"} => f.data.TypeParamsDecl = TDecl

\* C9: no PackageDesc of the model holds an InterfaceDesc without methods, no
\* written file holds code for the zero-method interface Empty.
C9_ZeroMethodSkipped ==
    /\ \A fp \in DOMAIN model : \A i \in 1..Len(model[fp].Interfaces) :
          Len(model[fp].Interfaces[i].Methods) > 0
    /\ FragmentsFor("Empty") = {}

\* generate returned an error
GenerateFailed == phase = "fatal" /\ genLeft # {}

\* C10: when generate returns an error, no file of the run has been written.
C10_AllOrNothing == GenerateFailed => written = {}

\* the key of the model whose package was written to the file
KeyOf(w) == File(w.out.dir, srcMockFile)

\* C11: every written file holds the complete fragment sequence of its
\* package (the imports, then the mock base, mock methods and call wrappers
\* of every interface), every fragment rendered by the template file, and
\* the source formatter accepted it.
C11_WrittenComplete ==
    \A w \in written :
        /\ KeyOf(w) \in DOMAIN model
        /\ w.source[1].kind = "imports"
        /\ Range(w.source[1].data.Imports) = model[KeyOf(w)].Imports \cup {""}
        /\ Tail(w.source) = FragmentsFrom(model[KeyOf(w)], 1, exported)
        /\ \A i \in 1..Len(w.source) : w.source[i].kind \in templates
        /\ \A text \in BufferTypes(w.source) : ~SyntaxError(text)

\* the package of a/ was written, then the buffer of b/ (Store, whose struct
\* parameter the formatter rejects) failed to format and was not written
C11_Witness ==
    /\ phase = "fatal"
    /\ err = "generate: source"
    /\ {w.out.dir : w \in written} = {"a"}
    /\ File("b", srcMockFile) \in genLeft

\* the names of the interfaces of a PackageDesc, in order
InterfaceNames(desc) == [i \in 1..Len(desc.Interfaces) |-> desc.Interfaces[i].Name]

\* C12: in every PackageDesc of the model no two entries of Interfaces have
\* the same Name.
C12_UniqueInterfaceNames ==
    \A fp \in DOMAIN model :
        \A i, j \in 1..Len(model[fp].Interfaces) :
            InterfaceNames(model[fp])[i] = InterfaceNames(model[fp])[j] => i = j

\* the exported interfaces with methods a package declares
ExportedInterfaces(path) ==
    {o \in Range(Decls(path)) : o.exported /\ o.kind = "Interface" /\ Len(o.methods) > 0}

\* the names of those the source file declares
DeclaredIn(source) ==
    {o.name : o \in {x \in ExportedInterfaces(PathJoin(ModuleName, source.dir)) :
                        x.file = source}}

\* the names of the interfaces of the model
ModelNames == UNION {Range(InterfaceNames(model[fp])) : fp \in DOMAIN model}

\* processSingleFile has returned the model of an existing source file
SingleFileBuilt == mode = "single" /\ phase # "single" /\ sourceFile \in ExistingFiles

C14_OnlySourceFile ==
    (SingleFileBuilt /\ interfaceFilter = {}) => ModelNames = DeclaredIn(sourceFile)

\* the declaration an annotation of the mock_test.go file of dir resolves to
Resolved(dir, line) ==
    Lookup(PathJoin(ModuleName, IF line.qual # "" THEN line.qual ELSE dir), line.name)

\* the annotations of the mock_test.go file of dir whose lookup succeeds
Found(dir) == SelectSeq(mockFiles[dir], LAMBDA line : Resolved(dir, line) # NoObject)

\* walk returned an error to main
WalkFailed == mode = "walk" /\ phase = "fatal" /\ err = "walk: is not an interface"

\* walk returned a model to main
WalkReturned == mode = "walk" /\ phase # "walk" /\ ~WalkFailed

\* C15: a failed lookup is local.  walk returns an error only when some
\* annotation resolves to a declaration that is not an interface, never for
\* an annotation that resolves to nothing; and the model walk returns holds,
\* for every mock_test.go file, every annotation whose lookup succeeds, in
\* the order of the file and with the methods of its declaration.
C15_LookupFailureLocal ==
    /\ WalkFailed =>
          \E d \in Range(Dirs) : \E i \in 1..Len(mockFiles[d]) :
              Resolved(d, mockFiles[d][i]).kind \notin {"none", "Interface"}
    /\ WalkReturned =>
          \A d \in Range(Dirs) :
              LET fp == File(d, srcMockFile)
              IN  IF Found(d) = <<>> THEN fp \notin DOMAIN model
                  ELSE /\ fp \in DOMAIN model
                       /\ Len(model[fp].Interfaces) = Len(Found(d))
                       /\ \A i \in 1..Len(Found(d)) :
                             /\ model[fp].Interfaces[i].Name = Found(d)[i].name
                             /\ model[fp].Interfaces[i].Methods
                                   = Resolved(d, Found(d)[i]).methods

\* both files name a missing interface, first in a/ and last in b/, and the
\* interfaces named next to them are in the model walk returned
C15_Witness ==
    /\ WalkReturned
    /\ phase = "built"
    /\ mockFiles["a"] = <<Annotation("", "Missing"), Annotation("", "PiniaColada")>>
    /\ mockFiles["b"] = <<Annotation("", "Store"), Annotation("", "Missing")>>
    /\ InterfaceNames(model[File("a", srcMockFile)]) = <<"PiniaColada">>
    /\ InterfaceNames(model[File("b", srcMockFile)]) = <<"Store">>

\* some annotation of the run resolves to a declaration that is not an interface
ShapeViolation ==
    \E d \in Range(Dirs) : \E i \in 1..Len(mockFiles[d]) :
        Resolved(d, mockFiles[d][i]).kind \notin {"none", "Interface"}

\* C16: a shape violation is fatal.  A walk over annotations of which one
\* resolves to a declaration that is not an interface never returns a model:
\* the run is still walking or has failed in walk, generate has not started
\* and nothing is written; and a failed walk leaves main no model, also when
\* files were visited without error before.
C16_ShapeViolationFatal ==
    /\ (mode = "walk" /\ ShapeViolation) =>
          /\ phase = "walk" \/ WalkFailed
          /\ genLeft = {}
          /\ written = {}
    /\ WalkFailed =>
          /\ ShapeViolation
          /\ model = NoModel
          /\ genLeft = {}
          /\ written = {}

\* a/ was visited without error and gave a PackageDesc, then b/ names the
\* struct a.Water: the walk failed and nothing is left of a/
C16_Witness ==
    /\ WalkFailed
    /\ mockFiles["a"] = <<Annotation("", "PiniaColada")>>
    /\ mockFiles["b"] = <<Annotation("", "Missing"), Annotation("a", "Water")>>
    /\ toVisit = <<"b">>
    /\ model = NoModel
    /\ written = {}

\* the variants the type switches of getTypeName and getTypeImports name
SupportedKinds == PlainKinds \cup {"Struct", "Interface"}

\* t is, or holds at some depth, a variant outside the supported set
ContainsUnsupported(t) == \E u \in SubTypes(t) : u.k \notin SupportedKinds

\* C17: for a type descriptor that is or holds, at any depth, a variant
\* outside the supported set, getTypeName returns no type expression and
\* getTypeImports returns no import list: both panic.
C17_UnsupportedFatal ==
    ContainsUnsupported(ty) =>
        /\ typeName \in {NotRun, Panic}
        /\ typeImports \in {NotRun, Panic}

\* the indices of list that hold imp
Occurrences(list, imp) == {i \in 1..Len(list) : list[i] = imp}

\* C18: the list quickGoImports returns holds "testing", "time" and
\* "github.com/stretchr/testify/mock" exactly once each, and every import
\* path of the import set of the PackageDesc exactly once, whatever the set
\* collected before the call.
C18_ForcedImports ==
    importList # NotRun =>
        \A imp \in importSet \cup {"testing", "time", "github.com/stretchr/testify/mock"} :
            Cardinality(Occurrences(importList, imp)) = 1

\* the call on a PackageDesc whose collected imports were none but forced
\* ones: the list is the separator and the three forced paths
C18_Witness ==
    /\ importList # NotRun
    /\ importSet = {"testing", "time", "github.com/stretchr/testify/mock"}
    /\ Len(importList) = 4

\* C19: the list quickGoImports returns is the paths without a dot in
\* ascending order, then one empty string, then the paths with a dot in
\* ascending order, whatever the order in which the range loop over the
\* import map yielded the paths.
C19_ImportOrdering ==
    importList # NotRun =>
        /\ Cardinality(Occurrences(importList, "")) = 1
        /\ Range(importList) = importSet \cup {""}
        /\ \A i, j \in 1..Len(importList) :
              i < j =>
                 LET x == importList[i]
                     y == importList[j]
                 IN  /\ x = "" => HasDot(y)
                     /\ y = "" => ~HasDot(x)
                     /\ (x # "" /\ y # "") =>
                           /\ HasDot(x) => HasDot(y)
                           /\ (HasDot(x) <=> HasDot(y)) => StringLess(x, y)

\* the range loop yielded a path with a dot first and the paths without a
\* dot in descending order
C19_Witness ==
    /\ importList # NotRun
    /\ Len(importOrder) >= 5
    /\ importOrder[1] = "gopkg.in/yaml.v3"
    /\ importOrder[2] = "time"
    /\ importOrder[3] = "testing"
    /\ importOrder[4] = "io"
    /\ importList[1] = "io"

\* the paths of an import set in ascending order of the strings
Ascending(imports) == SelectSeq(PathOrder, LAMBDA imp : imp \in imports)

\* the content of the file of a package, from its PackageDesc alone
ContentOf(pkgDesc) ==
    PackageFragments(pkgDesc, exported, Ascending(ImportsAfterRender(pkgDesc.Imports)))

\* C20: the content written for a package is a function of its PackageDesc
\* and the exported flag: it is the same for every order in which generate
\* ranges over the model and quickGoImports over the import map, and
\* whatever other packages are in the model; no output file is written with
\* two contents; and in a walk the PackageDesc is the one built from the
\* mock_test.go file of the package alone.
C20_Deterministic ==
    /\ \A w \in written : w.source = ContentOf(model[KeyOf(w)])
    /\ \A w1, w2 \in written : w1.out = w2.out => w1 = w2
    /\ WalkReturned =>
          \A fp \in DOMAIN model :
              model[fp].Interfaces
                  = ScanFile(fp.dir, mockFiles[fp.dir], PackageDesc(NilPkg, {}, <<>>)).desc.Interfaces

\* both packages were written, the one of a/ with the import "context" next
\* to the three forced ones, which the range loop yields in 24 orders
C20_Witness ==
    /\ phase = "done"
    /\ Cardinality(written) = 2
    /\ \E w \in written :
          /\ w.out.dir = "a"
          /\ w.source[1].data.Imports
                = <<"context", "testing", "time", "", "github.com/stretchr/testify/mock">>

RECURSIVE BasePosition(_, _)
\* the position in the buffer of the mock base of interface k of desc
BasePosition(desc, k) ==
    IF k = 1 THEN 2
    ELSE BasePosition(desc, k - 1) + 1 + 2 * Len(desc.Interfaces[k - 1].Methods)

\* C21: in every written buffer the imports fragment is the first fragment
\* and the only one of its kind; the mock base of interface k comes right
\* after the last fragment of interface k-1, and is followed, method by
\* method in Methods order, by the mock stub of the method and right after
\* it the call wrapper of the method; the buffer holds nothing else.
C21_FragmentOrder ==
    \A w \in written :
        LET desc == model[KeyOf(w)]
            n == Len(desc.Interfaces)
        IN  /\ {i \in 1..Len(w.source) : w.source[i].kind = "imports"} = {1}
            /\ Len(w.source) = BasePosition(desc, n + 1) - 1
            /\ \A k \in 1..n :
                  LET at == BasePosition(desc, k)
                      interfaceDesc == desc.Interfaces[k]
                  IN  /\ w.source[at].kind = "mockBase"
                      /\ w.source[at].data.InterfaceName = interfaceDesc.Name
                      /\ \A j \in 1..Len(interfaceDesc.Methods) :
                            /\ w.source[at + 2 * j - 1].kind = "combinedMockMethod"
                            /\ w.source[at + 2 * j].kind = "combinedCall"
                            /\ \A f \in {w.source[at + 2 * j - 1], w.source[at + 2 * j]} :
                                  /\ f.data.InterfaceName = interfaceDesc.Name
                                  /\ f.data.MethodName = interfaceDesc.Methods[j].name

\* the file of a/ for PiniaColada (two methods) and then Cache (one method):
\* nine fragments
C21_Witness ==
    \E w \in written :
        /\ w.out.dir = "a"
        /\ InterfaceNames(model[KeyOf(w)]) = <<"PiniaColada", "Cache">>
        /\ Len(w.source) = 9

\* the names of unnamed parameters and of unnamed results, by position
SynthesizedParamNames ==
    <<"aParam", "bParam", "cParam", "dParam", "eParam", "fParam", "gParam", "hParam">>
SynthesizedResultNames == <<"_ra0", "_rb1", "_rc2", "_rd3", "_re4", "_rf5", "_rg6", "_rh7">>

\* the positions (from 1) of the unnamed parameters that are not context.Context
UnnamedParams(sig) ==
    {i \in 1..sig.n : sig.nm[i] = "" /\ ~IsContext(sig.ch[i])}

\* the positions (from 1) of the unnamed results
UnnamedResults(sig) == {i \in 1..Len(ResultVars(sig)) : ResultVars(sig)[i].name = ""}

\* C22: the name MockMethod gives an unnamed parameter is the letter of its
\* position followed by "Param", the name of an unnamed result is fixed by
\* its position, Call gives the parameters of every sibling method the same
\* names by position, no synthesized result name equals a synthesized
\* parameter name at any position, and two positions of one list get two
\* names.
C22_NameSynthesis ==
    /\ mockData # NoData =>
          LET sig == iface.Methods[mIdx].sig
          IN  /\ \A i \in UnnamedParams(sig) :
                    mockData.Params[i].Name = SynthesizedParamNames[i]
              /\ \A i \in UnnamedResults(sig) :
                    mockData.Results[i].Name = SynthesizedResultNames[i]
              /\ \A i \in UnnamedParams(sig), j \in UnnamedResults(sig) :
                    mockData.Params[i].Name # mockData.Results[j].Name
              /\ \A i, j \in UnnamedParams(sig) :
                    mockData.Params[i].Name = mockData.Params[j].Name => i = j
              /\ \A i, j \in UnnamedResults(sig) :
                    mockData.Results[i].Name = mockData.Results[j].Name => i = j
    /\ callData # NoData =>
          \A m \in 1..Len(iface.Methods) : \A i \in 1..iface.Methods[m].sig.n :
              iface.Methods[m].sig.nm[i] = "" =>
                  callData.Methods[m].Params[i].Name = SynthesizedParamNames[i]
    /\ (mockData # NoData \/ callData # NoData) =>
          \A i, j \in 0..(Len(Letters) - 1) :
              /\ getResultName(Var("", TInt), j) # getParamName(Var("", TInt), i)
              /\ getParamName(Var("", TInt), i) = getParamName(Var("", TString), i)
              /\ i # j => /\ getParamName(Var("", TInt), i) # getParamName(Var("", TInt), j)
                          /\ getResultName(Var("", TInt), i) # getResultName(Var("", TInt), j)

\* MockMethod and Call have run on a method with two unnamed parameters and
\* two unnamed results
C22_Witness ==
    /\ mockData # NoData
    /\ callData # NoData
    /\ [i \in 1..Len(mockData.Params) |-> mockData.Params[i].Name] = <<"aParam", "bParam">>
    /\ [i \in 1..Len(mockData.Results) |-> mockData.Results[i].Name] = <<"_ra0", "_rb1">>

\* the mock bases of a buffer, in order
MockBases(buffer) == SelectSeq(buffer, LAMBDA f : f.kind = "mockBase")

\* the constructor prefixes of the written files
WrittenPrefixes ==
    UNION {{f.data.ConstructorPrefix : f \in Range(MockBases(w.source))} : w \in written}

\* C23: the exported flag is one policy of the run.  Without it every mock
\* base written has the prefix "new" and every file is mock_gen_test.go,
\* with it the prefix is "New" and the file is mock_gen.go; no run has two
\* prefixes or two file names; and a file is written in the directory of
\* the source file (single-file mode) or of the mock_test.go file whose
\* annotations its mock bases are (annotation mode).
C23_ExportedPolicy ==
    /\ WrittenPrefixes \subseteq {IF exported THEN "New" ELSE "new"}
    /\ {w.out.base : w \in written}
          \subseteq {IF exported THEN "mock_gen.go" ELSE "mock_gen_test.go"}
    /\ Cardinality(WrittenPrefixes) <= 1
    /\ Cardinality({w.out.base : w \in written}) <= 1
    /\ \A w \in written :
          IF mode = "single" THEN w.out.dir = sourceFile.dir
          ELSE [i \in 1..Len(MockBases(w.source)) |-> MockBases(w.source)[i].data.InterfaceName]
                  = [i \in 1..Len(Found(w.out.dir)) |-> Found(w.out.dir)[i].name]

\* an exported run that wrote the files of both directories
C23_Witness ==
    /\ exported
    /\ mode = "walk"
    /\ {w.out : w \in written} = {File("a", "mock_gen.go"), File("b", "mock_gen.go")}
    /\ WrittenPrefixes = {"New"}

\* C24: a template set without "combinedCall" makes Call return the "no
\* template" error at its first use and leaves the writer as it was; the
\* same for MockMethod without "combinedMockMethod"; and a template text
\* with a syntax error gives no template set, so that no render call is
\* ever made.
C24_MissingFragment ==
    /\ (callData # NoData /\ templateFile = "missing_combinedCall") =>
          /\ renderErr = "no template combinedCall"
          /\ \A i \in 1..Len(writer) : writer[i].kind # "combinedCall"
          /\ Len(writer) = IF mockData # NoData THEN 1 ELSE 0
    /\ (mockData # NoData /\ templateFile = "missing_combinedMockMethod") =>
          /\ renderErr = "no template combinedMockMethod"
          /\ \A i \in 1..Len(writer) : writer[i].kind # "combinedMockMethod"
          /\ Len(writer) = IF callData # NoData THEN 1 ELSE 0
    /\ (tmpl # NotLoaded /\ templateFile = "syntax_error") =>
          /\ renderErr = "parse template"
          /\ mockData = NoData
          /\ callData = NoData
          /\ writer = <<>>

\* MockMethod wrote its fragment, then Call failed on the template set
\* without "combinedCall" and the writer still holds that one fragment
C24_Witness ==
    /\ templateFile = "missing_combinedCall"
    /\ renderErr = "no template combinedCall"
    /\ callData # NoData
    /\ Len(writer) = 1
    /\ writer[1].kind = "combinedMockMethod"

\* C25: generate changes no PackageDesc of the model: every step taken while
\* generate runs leaves the model, and with it the Imports set of each
\* package, as walk or processSingleFile returned it.
C25_ModelUnchanged == [][phase = "generate" => model' = model]_vars

\* the names, parameter names and variadic flags of a sibling list
SiblingShape(methods) ==
    [j \in 1..Len(methods) |->
        [Name |-> methods[j].Name,
         ParamNames |-> [i \in 1..Len(methods[j].Params) |-> methods[j].Params[i].Name],
         IsVariadic |-> methods[j].IsVariadic]]

\* C26: the sibling list Call builds for a method holds one entry for every
\* method of the interface, the method itself included, in the order of
\* InterfaceDesc.Methods, each with the variadic flag of its own signature;
\* and its names, parameter names and flags are those of the list built for
\* every other method of the interface.
C26_SiblingList ==
    callData # NoData =>
        /\ Len(callData.Methods) = Len(iface.Methods)
        /\ \A j \in 1..Len(iface.Methods) :
              /\ callData.Methods[j].Name = iface.Methods[j].name
              /\ callData.Methods[j].IsVariadic = Variadic(iface.Methods[j].sig)
              /\ Len(callData.Methods[j].Params) = iface.Methods[j].sig.n
        /\ callData.Methods[mIdx].Name = callData.MethodName
        /\ \A k \in 1..Len(iface.Methods) :
              SiblingShape(callData.Methods)
                  = SiblingShape(Call(SyrupOf(mPkg, iface, k), iface.Methods).Methods)

\* the wrapper of the second of two methods, of which only the first is variadic
C26_Witness ==
    /\ callData # NoData
    /\ Len(iface.Methods) = 2
    /\ mIdx = 2
    /\ callData.Methods[1].IsVariadic
    /\ ~callData.Methods[2].IsVariadic
    /\ callData.Methods[2].Name = "Rhum"

NonContextPositions(sig) == {i \in 1..sig.n : sig.ch[i] # TContext}

\* the k-th smallest element of a set of positions
Nth(positions, k) ==
    CHOOSE at \in positions : Cardinality({q \in positions : q < at}) = k - 1

CallTypes(buffer) ==
    {[iface |-> buffer[i].data.InterfaceName, method |-> buffer[i].data.MethodName,
      type |-> buffer[i].data.CallType[1]] :
        i \in {j \in 1..Len(buffer) : buffer[j].kind = "combinedCall"}}

\* C29: in a written file, the call wrappers of two different (interface,
\* method) pairs have different type names.
C29_UniqueCallTypes ==
    \A w \in written :
        \A c1, c2 \in CallTypes(w.source) :
            <<c1.iface, c1.method>> # <<c2.iface, c2.method>> => c1.type # c2.type

\* C30: in annotation mode the owning package of the PackageDesc built for
\* the mock_test.go of a directory is the package of that directory, and
\* the generated file of that directory carries its name.
C30_OwningPackage ==
    mode = "walk" =>
        /\ \A fp \in DOMAIN model :
              model[fp].Pkg.path = PathJoin(ModuleName, fp.dir)
        /\ \A w \in written : w.source[1].data.Name = w.out.dir

====
